---- MODULE Spec2Model ----
(***************************************************************************)
(* A model of the update / rollback orchestration and multi-level          *)
(* verification layer of the IWSVA selenium test framework                 *)
(* (src/selenium-tests/src/frameworks and src/core/helpers).               *)
(*                                                                         *)
(* The orchestrator is one sequential thread; its position is pc.  The     *)
(* appliance (lock files, config file, update log) and the SSH transport   *)
(* are the environment.  Strings built by f-strings are modelled as        *)
(* sequences of their parts, Python's None for an optional integer or      *)
(* dict entry as the empty sequence <<>> and a present value v as <<v>>.    *)
(***************************************************************************)
EXTENDS Integers, Sequences, FiniteSets, TLC

VARIABLES
    pc,                 \* position of the orchestrator thread
    backend_verifier,   \* self.backend_verifier is configured (not None)
    log_verifier,       \* self.log_verifier is configured (not None)
    op,                 \* arguments and locals of the running single operation
    result,             \* the result dict of the running / last single operation
    wait,               \* locals and return value of wait_for_lock_file_removal
    batch,              \* the batch loop's locals and result dict
    calls,              \* test-double call log of the current top-level call
    raised,             \* exception that escaped the last top-level call
    lock_files,         \* remote lock files that exist
    now,                \* time.time(), re-based at the start of each operation
    ssh_connected,      \* SSHHelper.connected and SSHHelper.client
    ini_file,           \* the remote INI file: [exists, data]
    log_file,           \* the remote update log: a sequence of lines
    call,               \* name and arguments of the last verifier call
    ret                 \* the value the last verifier call returned

vars == <<pc, backend_verifier, log_verifier, op, result, wait, batch,
          calls, raised, lock_files, now, ssh_connected, ini_file, log_file, call, ret>>

-----------------------------------------------------------------------------
(* Bounds of the model *)

MaxTimeoutArg == 2      \* largest timeout override passed to an operation
MaxWaitTimeout == 4     \* largest timeout of a direct wait call
MaxIntervalArg == 3     \* largest check_interval of a direct wait call
MaxBatch == 3           \* longest component list of a batch
MaxLogLines == 2        \* longest update log
MaxSteps == 2           \* most log_step calls of one thread in one test
MaxCalls == 3           \* longest sequence of calls on the backend verifier

-----------------------------------------------------------------------------
(* Python values *)

None == "<None>"

DictGet(d, k, default) == IF k \in DOMAIN d THEN d[k] ELSE default

\* Python's  x or y  for an optional integer: None and 0 are both falsy.
IntOr(x, y) == IF x = <<>> \/ x = <<0>> THEN y ELSE x[1]

Exc(type, msg) == [type |-> type, msg |-> msg]
NoExc == Exc("none", <<>>)

\* s occurs in the message m (m is a sequence of parts, s a sequence of parts)
Contains(m, s) ==
    \E i \in 0..(Len(m) - Len(s)) : SubSeq(m, i + 1, i + Len(s)) = s

-----------------------------------------------------------------------------
(* Component registry: the class-level tables *)

ComponentIds ==
    {"PTN", "SPYWARE", "BOT", "ITP", "ITE", "ICRCAGENT", "ENG", "ATSEENG", "TMUFEENG"}

UPDATE_TIMEOUTS ==
    [c \in ComponentIds |->
        CASE c = "ENG" -> 720
          [] c \in {"ATSEENG", "TMUFEENG"} -> 600
          [] OTHER -> 300]

\* A support table without an unsupported component
RollbackSupportedEverywhere == [c \in ComponentIds |-> TRUE]

ROLLBACK_SUPPORTED == [c \in ComponentIds |-> c # "TMUFEENG"]

ROLLBACK_TIMEOUTS ==
    [c \in ComponentIds |->
        CASE c = "ENG" -> 360
          [] c = "ATSEENG" -> 300
          [] c = "TMUFEENG" -> 0
          [] OTHER -> 180]

COMPONENT_INI_KEYS ==
    [c \in ComponentIds |->
        CASE c = "PTN" -> "PTNVersion"
          [] c = "SPYWARE" -> "SpywareVersion"
          [] c = "BOT" -> "BotVersion"
          [] c = "ITP" -> "ITPVersion"
          [] c = "ITE" -> "ITEVersion"
          [] c = "ICRCAGENT" -> "ICRCAgentVersion"
          [] c = "ENG" -> "EngineVersion"
          [] c = "ATSEENG" -> "ATSEEngineVersion"
          [] OTHER -> "TMUFEEngineVersion"]

LOCK_FILE_PATHS ==
    [c \in ComponentIds |->
        CASE c = "PTN" -> "/var/iwss/updates/locks/ptn.lock"
          [] c = "SPYWARE" -> "/var/iwss/updates/locks/spyware.lock"
          [] c = "BOT" -> "/var/iwss/updates/locks/bot.lock"
          [] c = "ITP" -> "/var/iwss/updates/locks/itp.lock"
          [] c = "ITE" -> "/var/iwss/updates/locks/ite.lock"
          [] c = "ICRCAGENT" -> "/var/iwss/updates/locks/icrcagent.lock"
          [] c = "ENG" -> "/var/iwss/updates/locks/engine.lock"
          [] c = "ATSEENG" -> "/var/iwss/updates/locks/atseeng.lock"
          [] OTHER -> "/var/iwss/updates/locks/tmufeeng.lock"]

\* Default of UPDATE_TIMEOUTS.get(component_id, 600)
DefaultUpdateTimeout == 600
\* Default of ROLLBACK_TIMEOUTS.get(component_id, 300)
DefaultRollbackTimeout == 300
\* Default check_interval of wait_for_lock_file_removal
DefaultCheckInterval == 5
\* time.sleep(5) of the UI monitoring fallbacks
UiMonitorSleep == 5

-----------------------------------------------------------------------------
(* Inputs the model draws from *)

\* Component ids passed by callers: a rollback-capable one, the one without
\* rollback support, and one that is not registered.
InputIds == {"PTN", "TMUFEENG", "NOSUCH"}

\* Lock files the appliance creates and removes in the model: it only ever
\* updates the pattern file, the other lock files never exist.
TrackedLocks == {LOCK_FILE_PATHS["PTN"]}

TimeoutArgs == {<<>>} \cup {<<t>> : t \in 0..MaxTimeoutArg}

Versions == {"1.0.0.0", "0.9.9.9", "1.2.3.4"}

\* Outcomes of the browser collaborators
NavOutcomes == {NoExc, Exc("WebDriverException", <<"navigation failed">>)}
TitleOutcomes ==
    {NoExc,
     Exc("AssertionError",
         <<"Page title mismatch: expected '", "System Update", "', got '", "Login", "'">>)}

\* navigate() raises, or it returns and verify_page_title() raises, or neither
UiOutcomes ==
    {<<navExc, titleExc>> \in NavOutcomes \X TitleOutcomes :
        navExc = NoExc \/ titleExc = NoExc}

NotConnected ==
    Exc("RuntimeError", <<"Not connected to SSH server. Call connect() first.">>)
CommandFailed ==
    Exc("RuntimeError", <<"Command failed with exit code ", "1", " (expected ", "0", ")">>)

-----------------------------------------------------------------------------
(* SSHHelper and BackendVerification: remote reads *)

\* SSHHelper.file_exists: raises when not connected; any failure of the
\* remote stat other than "not found" (fault) is caught and reported False.
file_exists(remote_path, fault) ==
    IF ~ssh_connected
    THEN [raised |-> NotConnected, value |-> FALSE]
    ELSE IF fault
    THEN [raised |-> NoExc, value |-> FALSE]
    ELSE [raised |-> NoExc, value |-> remote_path \in lock_files]

\* BackendVerification.check_lock_file_exists
check_lock_file_exists(component_id, fault) ==
    LET lock_path == DictGet(LOCK_FILE_PATHS, component_id, None)
    IN  IF lock_path = None
        THEN [raised |-> NoExc, value |-> FALSE]
        ELSE file_exists(lock_path, fault)

\* BackendVerification.get_ini_file_content / SSHHelper.read_file:
\* the content, or the exception the read raises.
get_ini_file_content(fault) ==
    IF ~ssh_connected
    THEN [raised |-> NotConnected, value |-> << >>]
    ELSE IF ~ini_file.exists
    THEN [raised |-> Exc("FileNotFoundError", <<"/etc/iscan/intscan.ini">>), value |-> << >>]
    ELSE IF fault
    THEN [raised |-> Exc("IOError", <<"SFTP read failed">>), value |-> << >>]
    ELSE [raised |-> NoExc, value |-> ini_file.data]

\* BackendVerification.get_component_version_from_ini: every exception of
\* the read is caught and None returned.
get_component_version_from_ini(component_id, fault) ==
    LET ini_key == DictGet(COMPONENT_INI_KEYS, component_id, None)
        content == get_ini_file_content(fault)
    IN  IF ini_key = None THEN None
        ELSE IF content.raised # NoExc THEN None
        ELSE DictGet(content.value, ini_key, None)

\* UpdateWorkflow / RollbackWorkflow._get_component_version_safe
_get_component_version_safe(component_id, fault) ==
    IF backend_verifier
    THEN get_component_version_from_ini(component_id, fault)
    ELSE None

\* SSHHelper.execute_command_with_output, for a read-only command whose
\* standard output is out
execute_command_with_output(out, fault) ==
    IF ~ssh_connected
    THEN [raised |-> NotConnected, value |-> << >>]
    ELSE IF fault
    THEN [raised |-> CommandFailed, value |-> << >>]
    ELSE [raised |-> NoExc, value |-> out]

\* History of the current single operation (or direct wait): the exceptions
\* its collaborators raised, each with the step it was raised in and its
\* message.
Raising(where, r) ==
    IF r.raised # NoExc THEN {[where |-> where, msg |-> r.raised.msg]} ELSE {}

\* The exception of the ini read inside _get_component_version_safe
VersionReadRaising(component_id, fault) ==
    IF backend_verifier /\ DictGet(COMPONENT_INI_KEYS, component_id, None) # None
    THEN Raising("version_read", get_ini_file_content(fault))
    ELSE {}

\* The exceptions of one lock poll: the one check_lock_file_exists raises,
\* and the failure of the remote stat that file_exists catches
PollRaising(component_id, fault) ==
    Raising("lock_poll", check_lock_file_exists(component_id, fault))
    \cup (IF ssh_connected /\ fault /\ DictGet(LOCK_FILE_PATHS, component_id, None) # None
          THEN {[where |-> "remote_stat", msg |-> <<"SFTP stat failed">>]}
          ELSE {})

-----------------------------------------------------------------------------
(* LogVerification.  A log line is a sequence of whitespace-separated      *)
(* words; a regular expression  a.*b.*c  is a chain <<a, b, c>> of         *)
(* lower-case literals and  p|q  a set of chains.  No word of the          *)
(* vocabulary holds two consecutive literals of one chain, so a chain      *)
(* matches a line iff its literals occur in words at increasing positions. *)

\* the literals of the patterns that occur (case-insensitively) in a word
LiteralsIn(word) ==
    CASE word = "PTN" -> {"ptn"}
      [] word = "TMUFEENG" -> {"tmufeeng", "tmufe", "eng"}
      [] word = "NOSUCH" -> {"nosuch"}
      [] word \in {"update", "Update"} -> {"update"}
      [] word = "started" -> {"start"}
      [] word = "Starting" -> {"start", "starting"}
      [] word \in {"success", "successfully"} -> {"success"}
      [] word = "completed" -> {"complete"}
      [] word = "Pattern" -> {"pattern"}
      [] word = "ERROR" -> {"error"}
      [] word = "failed" -> {"fail", "failed"}
      [] word = "Exception" -> {"exception"}
      [] OTHER -> {}

Lower(component_id) ==
    CASE component_id = "PTN" -> "ptn"
      [] component_id = "TMUFEENG" -> "tmufeeng"
      [] component_id = "SPYWARE" -> "spyware"
      [] component_id = "BOT" -> "bot"
      [] component_id = "ENG" -> "eng"
      [] component_id = "ATSEENG" -> "atseeng"
      [] OTHER -> "nosuch"

\* PATTERNS['error'] = r'ERROR|FAIL|Exception|failed|error', IGNORECASE:
\* its alternatives in order
PATTERNS_error == <<"error", "fail", "exception", "failed", "error">>

\* the pattern as a set of chains
Alternatives(alts) == {<<alts[k]>> : k \in 1..Len(alts)}

\* COMPONENT_SUCCESS_PATTERNS
COMPONENT_SUCCESS_PATTERNS ==
    [c \in {"PTN", "SPYWARE", "BOT", "ENG", "ATSEENG", "TMUFEENG"} |->
        CASE c = "PTN" ->
               {<<"ptn", "update", "success">>, <<"pattern", "update", "complete">>}
          [] c = "SPYWARE" ->
               {<<"spyware", "update", "success">>, <<"spyware", "update", "complete">>}
          [] c = "BOT" ->
               {<<"bot", "update", "success">>, <<"bot", "update", "complete">>}
          [] c = "ENG" ->
               {<<"engine", "update", "success">>, <<"scan engine", "update", "complete">>}
          [] c = "ATSEENG" ->
               {<<"atse", "update", "success">>, <<"advanced threat", "update", "complete">>}
          [] OTHER ->
               {<<"tmufe", "update", "success">>, <<"url filter", "update", "complete">>}]

RECURSIVE ChainFrom(_, _, _)
ChainFrom(line, chain, from) ==
    IF chain = << >> THEN TRUE
    ELSE \E i \in from..Len(line) :
            /\ Head(chain) \in LiteralsIn(line[i])
            /\ ChainFrom(line, Tail(chain), i + 1)

\* regex.search(line) for the pattern given as a set of chains
RegexSearch(pattern, line) == \E chain \in pattern : ChainFrom(line, chain, 1)

\* LogVerification.search_pattern over given content
search_pattern(pattern, log_content) ==
    SelectSeq(log_content, LAMBDA line : RegexSearch(pattern, line))

LastN(s, n) == IF Len(s) <= n THEN s ELSE SubSeq(s, Len(s) - n + 1, Len(s))

\* LogVerification.get_log_tail
get_log_tail(lines, fault) == execute_command_with_output(LastN(log_file, lines), fault)

\* LogVerification.verify_update_started
verify_update_started(component_id, log_content) ==
    LET c == Lower(component_id)
        matches == search_pattern({<<c, "update", "start">>, <<"starting", c, "update">>},
                                  log_content)
    IN  [ok |-> Len(matches) > 0, lines |-> matches]

\* LogVerification.verify_update_success
verify_update_success(component_id, log_content) ==
    LET pattern == IF component_id \in DOMAIN COMPONENT_SUCCESS_PATTERNS
                   THEN COMPONENT_SUCCESS_PATTERNS[component_id]
                   ELSE {<<Lower(component_id), "update", "success">>}
        matches == search_pattern(pattern, log_content)
    IN  [ok |-> Len(matches) > 0, lines |-> matches]

\* LogVerification.verify_no_errors_for_component: the pattern is
\* f"{component_id}.*{PATTERNS['error']}", in which | binds weaker than the
\* concatenation, i.e.  id.*ERROR | FAIL | Exception | failed | error
verify_no_errors_for_component(component_id, log_content) ==
    LET pattern == {<<Lower(component_id), Head(PATTERNS_error)>>}
                       \cup Alternatives(Tail(PATTERNS_error))
        errors == search_pattern(pattern, log_content)
    IN  [ok |-> Len(errors) = 0, lines |-> errors]

IsVersionWord(w) == w \in Versions

\* PATTERNS['version_changed'] = r'Version changed from ([\d.]+) to ([\d.]+)'
VersionChangeAt(line, i) ==
    /\ i + 5 <= Len(line)
    /\ line[i] \in {"Version", "version"}
    /\ line[i + 1] = "changed"
    /\ line[i + 2] = "from"
    /\ IsVersionWord(line[i + 3])
    /\ line[i + 4] = "to"
    /\ IsVersionWord(line[i + 5])

FirstVersionChange(line) ==
    CHOOSE i \in 1..Len(line) :
        /\ VersionChangeAt(line, i)
        /\ \A j \in 1..(i - 1) : ~VersionChangeAt(line, j)

\* LogVerification.extract_version_change
extract_version_change(log_content) ==
    LET hits == SelectSeq(log_content,
                          LAMBDA line : \E i \in 1..Len(line) : VersionChangeAt(line, i))
    IN  [k \in 1..Len(hits) |->
            LET i == FirstVersionChange(hits[k])
            IN  [from_version |-> hits[k][i + 3],
                 to_version |-> hits[k][i + 5],
                 log_line |-> hits[k]]]

\* Lines 482-493 of verify_complete_update_cycle: the version check, <<>>
\* when no expected version is given
version_changed_check(expected_version, log_content) ==
    IF expected_version = None THEN << >>
    ELSE LET version_changes == extract_version_change(log_content)
         IN  <<[passed |-> \E k \in 1..Len(version_changes) :
                              version_changes[k].to_version = expected_version,
                expected |-> expected_version,
                changes |-> version_changes]>>

\* An overall success that also wants a version check to have run
cycle_success_with_version(started, completed, no_errors, version_check) ==
    started /\ completed /\ no_errors /\ version_check # << >>

\* Lines 496-500: "Overall success", which overwrites the value line 493
\* computed from the version check
cycle_success(started, completed, no_errors, version_check) ==
    started /\ completed /\ no_errors

\* LogVerification.verify_complete_update_cycle over given content
verify_complete_update_cycle(component_id, expected_version, log_content) ==
    LET started == verify_update_started(component_id, log_content)
        completed == verify_update_success(component_id, log_content)
        no_errors == verify_no_errors_for_component(component_id, log_content)
        version_check == version_changed_check(expected_version, log_content)
        success == cycle_success(started.ok, completed.ok, no_errors.ok, version_check)
        failed_checks ==
            (IF started.ok THEN {} ELSE {"update_started"})
            \cup (IF completed.ok THEN {} ELSE {"update_completed"})
            \cup (IF no_errors.ok THEN {} ELSE {"no_errors"})
            \cup (IF version_check # << >> /\ ~version_check[1].passed
                  THEN {"version_changed"} ELSE {})
    IN  [component_id |-> component_id,
         success |-> success,
         update_started |-> started.ok,
         update_completed |-> completed.ok,
         no_errors |-> no_errors.ok,
         version_changed |-> version_check,
         message |-> IF success
                     THEN <<component_id, " update cycle verified successfully">>
                     ELSE <<component_id, " update cycle verification failed: ">>,
         failed_checks |-> failed_checks]

-----------------------------------------------------------------------------
(* Result records and locals *)

\* max_lines=1000 of the log verification run by execute_normal_update
UpdateLogTailLines == 1000

\* The result dict built at the start of execute_normal_update and
\* execute_rollback.  'start_time' and the timestamps (wall-clock strings) are
\* left out; 'end_time' and 'error' are <<>> while the key is absent.
InitResult(operation, component_id) ==
    [component_id |-> component_id,
     operation |-> operation,
     success |-> FALSE,
     message |-> << >>,
     pre_verification |-> << >>,
     post_verification |-> << >>,
     log_verification |-> << >>,
     duration |-> 0,
     end_time |-> << >>,
     error |-> << >>]

\* A handler that reports the failure without str(e)
FailedResultNoReason(r, prefix, e, t, start_time) ==
    [r EXCEPT !.success = FALSE,
              !.message = prefix,
              !.duration = t - start_time]

\* The  except Exception  handlers: message prefix + str(e)
FailedResult(r, prefix, e, t, start_time) ==
    [r EXCEPT !.success = FALSE,
              !.message = prefix \o e.msg,
              !.error = <<e.msg>>,
              !.duration = t - start_time]

\* Lines 175-178 of execute_normal_update: the wait returned False
TimeoutResult(r, update_timeout) ==
    [r EXCEPT !.success = FALSE,
              !.message = <<"Update timeout after ", ToString(update_timeout), "s">>]

\* An overall success that takes the attached log verdict into account
SuccessResultIfVerified(r, verb, t, start_time) ==
    [r EXCEPT !.duration = t - start_time,
              !.end_time = <<t>>,
              !.success = (r.log_verification = << >> \/ r.log_verification[1].success),
              !.message = <<r.component_id, verb>>]

\* Lines 210-216 / 212-218: duration, end time and overall success
SuccessResult(r, verb, t, start_time) ==
    [r EXCEPT !.duration = t - start_time,
              !.end_time = <<t>>,
              !.success = TRUE,
              !.message = <<r.component_id, verb>>]

IdleOp == [kind |-> "none"]

NoCall == [name |-> "none"]

IdleWait ==
    [component_id |-> None, timeout |-> 0, check_interval |-> 0, start_time |-> 0,
     elapsed |-> 0, caller |-> "none", ret |-> << >>, polls |-> 0,
     seen_absent |-> FALSE]

FreshCalls ==
    [navigate |-> 0, verify_page_title |-> 0, triggers |-> << >>, attempts |-> << >>,
     exceptions |-> {}]

IdleBatch ==
    [active |-> FALSE, operation |-> "none", component_ids |-> << >>, i |-> 1,
     verify_after |-> FALSE, continue_on_error |-> FALSE,
     total_count |-> 0, success_count |-> 0, failure_count |-> 0, skipped_count |-> 0,
     component_results |-> << >>, success |-> << >>]

\* d[k] = v on a dict
DictPut(d, k, v) == [x \in DOMAIN d \cup {k} |-> IF x = k THEN v ELSE d[x]]

\* The lock file of the component is absent in the environment (ghost)
LockAbsent(component_id, locks) ==
    component_id \in ComponentIds /\ LOCK_FILE_PATHS[component_id] \notin locks

\* wait_for_lock_file_removal, lines 370-372: the locals at entry.
\* seen_absent and polls are history: whether the lock file was absent at
\* some moment before the timeout elapsed (kept for single operations and
\* direct waits, not inside a batch), and the polls made.
StartWait(component_id, timeout, check_interval, caller, t) ==
    [component_id |-> component_id, timeout |-> timeout,
     check_interval |-> check_interval, start_time |-> t, elapsed |-> 0,
     caller |-> caller, ret |-> << >>, polls |-> 0,
     seen_absent |-> (~batch.active /\ 0 < timeout
                      /\ LockAbsent(component_id, lock_files))]

\* Return to the caller of a single operation: the batch loop or the test
EndOp == pc' = IF batch.active THEN "batch_ret" ELSE "done"

\* A support check that lets every component through
can_rollback_any(component_id) == TRUE

\* RollbackWorkflow.can_rollback
can_rollback(component_id) == DictGet(ROLLBACK_SUPPORTED, component_id, FALSE)

-----------------------------------------------------------------------------
(* UpdateWorkflow.execute_normal_update *)

\* A pre-verification that does not look for the backend verifier
PreTakenAlways(verify_before) == verify_before

\* if verify_before and self.backend_verifier:
PreTaken(verify_before) == verify_before /\ backend_verifier

\* timeout or self.UPDATE_TIMEOUTS.get(component_id, 600)
UpdateTimeout(component_id, timeout) ==
    IntOr(timeout, DictGet(UPDATE_TIMEOUTS, component_id, DefaultUpdateTimeout))

\* Lines 131-181: from entry to the start of the monitoring
BeginUpdate(base, component_id, verify_before, verify_after, verify_logs, timeout, navExc, titleExc, fault) ==
    LET r0 == InitResult("update", component_id)
        pre_taken == PreTaken(verify_before)
        pre_version == _get_component_version_safe(component_id, fault)
        r1 == IF pre_taken THEN [r0 EXCEPT !.pre_verification = <<pre_version>>] ELSE r0
        update_timeout == UpdateTimeout(component_id, timeout)
        attempted == [base EXCEPT
                         !.attempts = Append(@, <<"update", component_id>>),
                         !.exceptions = IF pre_taken
                                        THEN VersionReadRaising(component_id, fault)
                                        ELSE {}]
    IN  /\ op' = [kind |-> "update", component_id |-> component_id,
                  verify_before |-> verify_before, verify_after |-> verify_after,
                  verify_logs |-> verify_logs, timeout |-> timeout,
                  update_timeout |-> update_timeout, start_time |-> 0,
                  pre_version |-> IF pre_taken THEN <<pre_version>> ELSE << >>]
        /\ now' = 0
        /\ raised' = NoExc
        /\ IF navExc # NoExc
           THEN /\ calls' = [attempted EXCEPT
                                !.navigate = @ + 1,
                                !.exceptions = @ \cup {[where |-> "navigate",
                                                        msg |-> navExc.msg]}]
                /\ result' = FailedResult(r1, <<"Update failed: ">>, navExc, 0, 0)
                /\ wait' = IdleWait
                /\ EndOp
           ELSE IF titleExc # NoExc
           THEN /\ calls' = [attempted EXCEPT
                                !.navigate = @ + 1,
                                !.verify_page_title = @ + 1,
                                !.exceptions = @ \cup {[where |-> "verify_page_title",
                                                        msg |-> titleExc.msg]}]
                /\ result' = FailedResult(r1, <<"Update failed: ">>, titleExc, 0, 0)
                /\ wait' = IdleWait
                /\ EndOp
           ELSE /\ calls' = [attempted EXCEPT
                                !.navigate = @ + 1,
                                !.verify_page_title = @ + 1,
                                !.triggers = Append(@, <<"update", component_id>>)]
                /\ result' = r1
                /\ IF backend_verifier
                   THEN /\ wait' = StartWait(component_id, update_timeout,
                                             DefaultCheckInterval, "update", 0)
                        /\ pc' = "wait_loop"
                   ELSE /\ wait' = IdleWait
                        /\ pc' = "ui_wait"

\* A log verification that does not look for the log verifier
LogsTakenAlways(verify_logs) == verify_logs

\* if verify_logs and self.log_verifier:
LogsTaken(verify_logs) == verify_logs /\ log_verifier

\* Lines 185-216: post-update verification, log verification, success
FinishUpdate(c, t, fault_ini, fault_log) ==
    LET post_taken == op.verify_after /\ backend_verifier
        post_version == _get_component_version_safe(op.component_id, fault_ini)
        r2 == IF post_taken
              THEN [result EXCEPT !.post_verification = <<post_version>>]
              ELSE result
        logs_taken == LogsTaken(op.verify_logs)
        tail == get_log_tail(UpdateLogTailLines, fault_log)
        c2 == [c EXCEPT !.exceptions =
                  @ \cup (IF post_taken
                          THEN VersionReadRaising(op.component_id, fault_ini) ELSE {})
                    \cup (IF logs_taken THEN Raising("log_verification", tail) ELSE {})]
    IN  /\ calls' = c2
        /\ IF logs_taken /\ tail.raised # NoExc
           THEN result' = FailedResult(r2, <<"Update failed: ">>, tail.raised, t,
                                       op.start_time)
           ELSE LET r3 == IF logs_taken
                          THEN [r2 EXCEPT !.log_verification =
                                  <<verify_complete_update_cycle(op.component_id, None,
                                                                 tail.value)>>]
                          ELSE r2
                IN  result' = SuccessResult(r3, " update completed successfully", t,
                                            op.start_time)

\* _wait_for_update_completion_ui: time.sleep(5), then the rest of the update
UiWake ==
    /\ pc = "ui_wait"
    /\ \E fault_ini, fault_log \in BOOLEAN :
        /\ now' = now + UiMonitorSleep
        /\ FinishUpdate(calls, now', fault_ini, fault_log)
    /\ EndOp
    /\ UNCHANGED <<backend_verifier, log_verifier, op, wait, batch, raised,
                   lock_files, ssh_connected, ini_file, log_file, call, ret>>

-----------------------------------------------------------------------------
(* BackendVerification.wait_for_lock_file_removal *)

\* A loop that goes on until the lock is seen cleared
WaitConditionForever(elapsed, timeout) == TRUE

\* The loop condition of line 374
WaitCondition(elapsed, timeout) == elapsed < timeout

\* The wait returns v to its caller
WaitReturn(v, w, c, fault_ini, fault_log) ==
    /\ wait' = [w EXCEPT !.ret = <<v>>]
    /\ IF w.caller = "direct"
       THEN /\ pc' = "done"
            /\ calls' = c
            /\ UNCHANGED <<result, raised>>
       ELSE /\ IF v
               THEN FinishUpdate(c, now, fault_ini, fault_log)
               ELSE /\ result' = TimeoutResult(result, op.update_timeout)
                    /\ calls' = c
            /\ EndOp
            /\ UNCHANGED raised

\* An exception of the poll leaves the wait: it escapes a direct call and is
\* caught by execute_normal_update's handler
WaitRaise(e, w, c) ==
    /\ wait' = w
    /\ calls' = c
    /\ IF w.caller = "direct"
       THEN /\ pc' = "done"
            /\ raised' = e
            /\ UNCHANGED result
       ELSE /\ result' = FailedResult(result, <<"Update failed: ">>, e, now, op.start_time)
            /\ EndOp
            /\ UNCHANGED raised

\* One evaluation of the loop condition and, inside the loop, one poll
\* (lines 374-377)
WaitLoop ==
    /\ pc = "wait_loop"
    /\ \E fault, fault_ini, fault_log \in BOOLEAN :
        IF WaitCondition(wait.elapsed, wait.timeout)
        THEN LET chk == check_lock_file_exists(wait.component_id, fault)
                 w == [wait EXCEPT !.polls = @ + 1]
                 c == [calls EXCEPT !.exceptions =
                          @ \cup PollRaising(wait.component_id, fault)]
             IN  IF chk.raised # NoExc THEN WaitRaise(chk.raised, w, c)
                 ELSE IF ~chk.value THEN WaitReturn(TRUE, w, c, fault_ini, fault_log)
                 ELSE /\ wait' = w
                      /\ calls' = c
                      /\ pc' = "wait_sleep"
                      /\ UNCHANGED <<result, raised>>
        ELSE WaitReturn(FALSE, wait, calls, fault_ini, fault_log)
    /\ UNCHANGED <<backend_verifier, log_verifier, op, batch,
                   lock_files, now, ssh_connected, ini_file, log_file, call, ret>>

\* time.sleep(check_interval); elapsed = time.time() - start_time
WaitSleep ==
    /\ pc = "wait_sleep"
    /\ now' = now + wait.check_interval
    /\ wait' = [wait EXCEPT !.elapsed = now' - wait.start_time]
    /\ pc' = "wait_loop"
    /\ UNCHANGED <<backend_verifier, log_verifier, op, result, batch, calls, raised,
                   lock_files, ssh_connected, ini_file, log_file, call, ret>>

-----------------------------------------------------------------------------
(* RollbackWorkflow.execute_rollback *)

\* timeout or self.ROLLBACK_TIMEOUTS.get(component_id, 300)
RollbackTimeout(component_id, timeout) ==
    IntOr(timeout, DictGet(ROLLBACK_TIMEOUTS, component_id, DefaultRollbackTimeout))

\* Divisor of  time.sleep(rollback_timeout // 10)
RollbackSleepDivisor == 10

NotSupportedError(component_id) ==
    Exc("ValueError",
        <<component_id, " does not support rollback. ",
          "Rollback is not available for this component.">>)

\* Lines 142-192: from entry to the sleep that stands for the monitoring
BeginRollback(base, component_id, verify_before, verify_after, timeout, navExc, titleExc, fault) ==
    LET r0 == InitResult("rollback", component_id)
        pre_taken == PreTaken(verify_before)
        pre_version == _get_component_version_safe(component_id, fault)
        r1 == IF pre_taken THEN [r0 EXCEPT !.pre_verification = <<pre_version>>] ELSE r0
        rollback_timeout == RollbackTimeout(component_id, timeout)
        attempted == [base EXCEPT !.attempts = Append(@, <<"rollback", component_id>>)]
        versioned == [attempted EXCEPT
                         !.exceptions = IF pre_taken
                                        THEN VersionReadRaising(component_id, fault)
                                        ELSE {}]
    IN  /\ op' = [kind |-> "rollback", component_id |-> component_id,
                  verify_before |-> verify_before, verify_after |-> verify_after,
                  verify_logs |-> FALSE, timeout |-> timeout,
                  update_timeout |-> rollback_timeout, start_time |-> 0,
                  pre_version |-> IF pre_taken /\ can_rollback(component_id)
                                  THEN <<pre_version>> ELSE << >>]
        /\ now' = 0
        /\ raised' = NoExc
        /\ wait' = IdleWait
        /\ IF ~can_rollback(component_id)
           THEN \* except ValueError: message = str(e)
                /\ calls' = attempted
                /\ result' = FailedResult(r0, << >>, NotSupportedError(component_id), 0, 0)
                /\ EndOp
           ELSE IF navExc # NoExc
           THEN /\ calls' = [versioned EXCEPT
                                !.navigate = @ + 1,
                                !.exceptions = @ \cup {[where |-> "navigate",
                                                        msg |-> navExc.msg]}]
                /\ result' = FailedResult(r1, <<"Rollback failed: ">>, navExc, 0, 0)
                /\ EndOp
           ELSE IF titleExc # NoExc
           THEN /\ calls' = [versioned EXCEPT
                                !.navigate = @ + 1,
                                !.verify_page_title = @ + 1,
                                !.exceptions = @ \cup {[where |-> "verify_page_title",
                                                        msg |-> titleExc.msg]}]
                /\ result' = FailedResult(r1, <<"Rollback failed: ">>, titleExc, 0, 0)
                /\ EndOp
           ELSE /\ calls' = [versioned EXCEPT
                                !.navigate = @ + 1,
                                !.verify_page_title = @ + 1,
                                !.triggers = Append(@, <<"rollback", component_id>>)]
                /\ result' = r1
                /\ pc' = "rollback_sleep"

\* Lines 186-218: the sleep, post-rollback verification, success
RollbackWake ==
    /\ pc = "rollback_sleep"
    /\ \E fault \in BOOLEAN :
        LET post_taken == op.verify_after /\ backend_verifier
            post_version == _get_component_version_safe(op.component_id, fault)
            r2 == IF post_taken
                  THEN [result EXCEPT !.post_verification = <<post_version>>]
                  ELSE result
        IN  /\ now' = now + (IF backend_verifier
                             THEN op.update_timeout \div RollbackSleepDivisor
                             ELSE UiMonitorSleep)
            /\ calls' = [calls EXCEPT !.exceptions =
                            IF post_taken
                            THEN @ \cup VersionReadRaising(op.component_id, fault)
                            ELSE @]
            /\ result' = SuccessResult(r2, " rollback completed successfully", now',
                                       op.start_time)
    /\ EndOp
    /\ UNCHANGED <<backend_verifier, log_verifier, op, wait, batch, raised,
                   lock_files, ssh_connected, ini_file, log_file, call, ret>>

-----------------------------------------------------------------------------
(* Top-level calls of the single operations *)

ExecuteNormalUpdate ==
    /\ pc = "idle"
    /\ \E component_id \in InputIds, timeout \in TimeoutArgs,
          verify_before, verify_after, verify_logs \in BOOLEAN,
          ui \in UiOutcomes, fault \in BOOLEAN :
        BeginUpdate(FreshCalls, component_id, verify_before, verify_after, verify_logs,
                    timeout, ui[1], ui[2], fault)
    /\ UNCHANGED <<backend_verifier, log_verifier, batch,
                   lock_files, ssh_connected, ini_file, log_file, call, ret>>

ExecuteRollback ==
    /\ pc = "idle"
    /\ \E component_id \in InputIds, timeout \in TimeoutArgs,
          verify_before, verify_after \in BOOLEAN,
          ui \in UiOutcomes, fault \in BOOLEAN :
        BeginRollback(FreshCalls, component_id, verify_before, verify_after,
                      timeout, ui[1], ui[2], fault)
    /\ UNCHANGED <<backend_verifier, log_verifier, batch,
                   lock_files, ssh_connected, ini_file, log_file, call, ret>>

\* A test calls wait_for_lock_file_removal itself
CallWait ==
    /\ pc = "idle"
    /\ backend_verifier
    /\ \E component_id \in InputIds, timeout \in 0..MaxWaitTimeout,
          check_interval \in 1..MaxIntervalArg :
        wait' = StartWait(component_id, timeout, check_interval, "direct", 0)
    /\ now' = 0
    /\ raised' = NoExc
    /\ pc' = "wait_loop"
    /\ UNCHANGED <<backend_verifier, log_verifier, op, result, batch, calls,
                   lock_files, ssh_connected, ini_file, log_file, call, ret>>

-----------------------------------------------------------------------------
(* The environment: the appliance's lock files and the SSH connection *)

\* The lock file was absent at a moment before the wait's timeout elapsed
NoteAbsent(w, locks) ==
    IF pc \in {"wait_loop", "wait_sleep"} /\ ~batch.active
    THEN [w EXCEPT !.seen_absent =
             @ \/ (now - w.start_time < w.timeout /\ LockAbsent(w.component_id, locks))]
    ELSE w

LockCreate ==
    /\ \E p \in TrackedLocks \ lock_files : lock_files' = lock_files \cup {p}
    /\ UNCHANGED <<pc, backend_verifier, log_verifier, op, result, wait, batch, calls,
                   raised, now, ssh_connected, ini_file, log_file, call, ret>>

LockRemove ==
    /\ \E p \in lock_files : lock_files' = lock_files \ {p}
    /\ wait' = NoteAbsent(wait, lock_files')
    /\ UNCHANGED <<pc, backend_verifier, log_verifier, op, result, batch, calls,
                   raised, now, ssh_connected, ini_file, log_file, call, ret>>

\* BackendVerification.connect / SSHHelper.connect, between operations
Connect ==
    /\ pc = "idle"
    /\ backend_verifier \/ log_verifier
    /\ \E ok \in BOOLEAN : ssh_connected' = ok
    /\ UNCHANGED <<pc, backend_verifier, log_verifier, op, result, wait, batch, calls,
                   raised, lock_files, now, ini_file, log_file, call, ret>>

\* The caller drops the returned result: every call builds its own result
\* dict and locals, nothing of the last call is read by the next.
Discard ==
    /\ pc = "done"
    /\ pc' = "idle"
    /\ op' = IdleOp
    /\ result' = InitResult("none", None)
    /\ wait' = IdleWait
    /\ batch' = IdleBatch
    /\ calls' = FreshCalls
    /\ raised' = NoExc
    /\ now' = 0
    /\ call' = NoCall
    /\ ret' = << >>
    /\ UNCHANGED <<backend_verifier, log_verifier, lock_files, ssh_connected,
                   ini_file, log_file>>

-----------------------------------------------------------------------------
(* Initial states *)

GoodIni == [exists |-> TRUE, data |-> [k \in {"PTNVersion"} |-> "1.0.0.0"]]

GoodLog == <<<<"PTN", "update", "started">>, <<"PTN", "update", "success">>>>

LogFiles == {GoodLog, <<<<"ERROR", "PTN", "download">>>>}

InitCommon ==
    /\ pc = "idle"
    /\ op = IdleOp
    /\ result = InitResult("none", None)
    /\ wait = IdleWait
    /\ batch = IdleBatch
    /\ calls = FreshCalls
    /\ raised = NoExc
    /\ lock_files = {}
    /\ now = 0
    /\ ssh_connected = FALSE
    /\ call = NoCall
    /\ ret = << >>

Init ==
    /\ InitCommon
    /\ backend_verifier \in BOOLEAN
    /\ log_verifier \in BOOLEAN
    /\ ini_file = GoodIni
    /\ log_file \in LogFiles

Next ==
    \/ ExecuteNormalUpdate
    \/ ExecuteRollback
    \/ WaitLoop
    \/ WaitSleep
    \/ UiWake
    \/ RollbackWake
    \/ LockCreate
    \/ LockRemove
    \/ Connect
    \/ Discard

Spec == Init /\ [][Next]_vars

-----------------------------------------------------------------------------
(* Batch operations: execute_update_all and execute_batch_rollback.        *)
(* component_results keeps, of each component's result dict, the keys the  *)
(* batch and its callers branch on.                                        *)

\* Ids the batches of the model are made of
BatchIds == {"PTN", "TMUFEENG"}

RECURSIVE SeqsUpTo(_, _)
SeqsUpTo(S, n) ==
    IF n = 0 THEN {<< >>}
    ELSE LET shorter == SeqsUpTo(S, n - 1)
         IN  shorter \cup {Append(q, x) : q \in shorter, x \in S}

ResultSummary(r) ==
    [success |-> r.success, skipped |-> FALSE]

SkippedSummary ==
    [success |-> FALSE, skipped |-> TRUE]

\* Lines 303-310 / 368-376 and the loop header
BeginBatch(operation, component_ids, verify_after, continue_on_error) ==
    /\ batch' = [active |-> TRUE, operation |-> operation,
                 component_ids |-> component_ids, i |-> 1,
                 verify_after |-> verify_after,
                 continue_on_error |-> continue_on_error,
                 total_count |-> Len(component_ids),
                 success_count |-> 0, failure_count |-> 0, skipped_count |-> 0,
                 component_results |-> << >>, success |-> << >>]
    /\ pc' = "batch_loop"
    /\ calls' = FreshCalls
    /\ op' = IdleOp
    /\ result' = InitResult("none", None)
    /\ wait' = IdleWait
    /\ raised' = NoExc
    /\ now' = 0

ExecuteUpdateAll ==
    /\ pc = "idle"
    /\ \E component_ids \in SeqsUpTo(BatchIds, MaxBatch),
          verify_after, continue_on_error \in BOOLEAN :
        BeginBatch("update", component_ids, verify_after, continue_on_error)
    /\ UNCHANGED <<backend_verifier, log_verifier, lock_files, ssh_connected,
                   ini_file, log_file, call, ret>>

ExecuteBatchRollback ==
    /\ pc = "idle"
    /\ \E component_ids \in SeqsUpTo(BatchIds, MaxBatch), continue_on_error \in BOOLEAN :
        BeginBatch("rollback", component_ids, TRUE, continue_on_error)
    /\ UNCHANGED <<backend_verifier, log_verifier, lock_files, ssh_connected,
                   ini_file, log_file, call, ret>>

\* A batch that counts a skipped component against its success
BatchFinishedSkipsFail(b) ==
    [b EXCEPT !.active = FALSE,
              !.success = <<b.failure_count = 0 /\ b.skipped_count = 0>>]

\* Lines 344-345 / 420-421: the batch result is completed and returned
BatchFinished(b) ==
    [b EXCEPT !.active = FALSE, !.success = <<b.failure_count = 0>>]

\* A rollback batch that skips nothing
BatchSkipsNothing(b, component_id) == FALSE

\* The rollback batch skips a component at lines 382-390
BatchSkips(b, component_id) ==
    b.operation = "rollback" /\ ~can_rollback(component_id)

\* One pass over the loop header: the loop ends, or the next component is
\* skipped or its operation is called
BatchLoop ==
    /\ pc = "batch_loop"
    /\ IF batch.i > Len(batch.component_ids)
       THEN /\ batch' = BatchFinished(batch)
            /\ pc' = "done"
            /\ UNCHANGED <<op, result, wait, calls, raised, now>>
       ELSE LET component_id == batch.component_ids[batch.i]
            IN  IF BatchSkips(batch, component_id)
                THEN /\ batch' = [batch EXCEPT
                                    !.skipped_count = @ + 1,
                                    !.component_results =
                                        DictPut(@, component_id, SkippedSummary),
                                    !.i = @ + 1]
                     /\ UNCHANGED <<pc, op, result, wait, calls, raised, now>>
                ELSE /\ \E ui \in UiOutcomes, fault \in BOOLEAN :
                          IF batch.operation = "update"
                          THEN BeginUpdate(calls, component_id, FALSE,
                                           batch.verify_after, FALSE, << >>,
                                           ui[1], ui[2], fault)
                          ELSE BeginRollback(calls, component_id, FALSE, TRUE, << >>,
                                             ui[1], ui[2], fault)
                     /\ UNCHANGED batch
    /\ UNCHANGED <<backend_verifier, log_verifier, lock_files, ssh_connected,
                   ini_file, log_file, call, ret>>

\* A loop without the break
BatchNeverBreaks(continue_on_error) == FALSE

\* The loop stops after a failed component (the break of lines 329-331 and
\* 405-407)
BatchBreaks(continue_on_error) == ~continue_on_error

\* Lines 323-331 / 399-407: the component's result is recorded and counted.
\* (The except branch of the loop body is unreachable: the single
\* operations catch every exception.)
BatchRet ==
    /\ pc = "batch_ret"
    /\ LET component_id == batch.component_ids[batch.i]
           b1 == [batch EXCEPT !.component_results =
                                   DictPut(@, component_id, ResultSummary(result))]
       IN  IF result.success
           THEN /\ batch' = [b1 EXCEPT !.success_count = @ + 1, !.i = @ + 1]
                /\ pc' = "batch_loop"
           ELSE LET b2 == [b1 EXCEPT !.failure_count = @ + 1]
                IN  IF BatchBreaks(batch.continue_on_error)
                    THEN /\ batch' = BatchFinished(b2)
                         /\ pc' = "done"
                    ELSE /\ batch' = [b2 EXCEPT !.i = @ + 1]
                         /\ pc' = "batch_loop"
    /\ UNCHANGED <<backend_verifier, log_verifier, op, result, wait, calls, raised,
                   lock_files, now, ssh_connected, ini_file, log_file, call, ret>>

InitBatch ==
    /\ InitCommon
    /\ backend_verifier \in BOOLEAN
    /\ log_verifier = FALSE
    /\ ini_file = GoodIni
    /\ log_file = GoodLog

NextBatch ==
    \/ ExecuteUpdateAll
    \/ ExecuteBatchRollback
    \/ BatchLoop
    \/ BatchRet
    \/ WaitLoop
    \/ WaitSleep
    \/ UiWake
    \/ RollbackWake
    \/ LockCreate
    \/ LockRemove
    \/ Connect
    \/ Discard

SpecBatch == InitBatch /\ [][NextBatch]_vars

-----------------------------------------------------------------------------
(* Direct calls of wait_for_lock_file_removal *)

InitWait ==
    /\ InitCommon
    /\ backend_verifier = TRUE
    /\ log_verifier = FALSE
    /\ ini_file = GoodIni
    /\ log_file = GoodLog

NextWait ==
    \/ CallWait
    \/ WaitLoop
    \/ WaitSleep
    \/ LockCreate
    \/ LockRemove
    \/ Connect
    \/ Discard

SpecWait == InitWait /\ [][NextWait]_vars

-----------------------------------------------------------------------------
(* Calls of the log verifier *)

\* Lines the appliance writes to the update log in the model
LogLines ==
    {<<"PTN", "update", "started">>,
     <<"PTN", "update", "success">>,
     <<"Version", "changed", "from", "1.0.0.0", "to", "1.2.3.4">>,
     <<"Version", "changed", "from", "1.0.0.0", "to", "0.9.9.9">>,
     <<"ERROR", "PTN", "download">>,
     <<"TMUFEENG", "update", "failed">>,
     <<"TMUFEENG", "update", "started">>}

\* Default max_lines of the log verifier's methods
DefaultMaxLines == 1000

\* verify_complete_update_cycle(component_id, expected_version) reading the
\* log itself: an exception of get_log_tail escapes
CallVerifyCompleteUpdateCycle ==
    /\ pc = "idle"
    /\ pc' = "done"
    /\ \E component_id \in InputIds, expected_version \in {None} \cup Versions,
          fault \in BOOLEAN :
        LET tail == get_log_tail(DefaultMaxLines, fault)
        IN  /\ call' = [name |-> "verify_complete_update_cycle",
                        component_id |-> component_id,
                        expected_version |-> expected_version]
            /\ IF tail.raised # NoExc
               THEN /\ raised' = tail.raised
                    /\ ret' = << >>
               ELSE /\ raised' = NoExc
                    /\ ret' = <<verify_complete_update_cycle(component_id,
                                                             expected_version,
                                                             tail.value)>>
    /\ UNCHANGED <<backend_verifier, log_verifier, op, result, wait, batch, calls,
                   lock_files, now, ssh_connected, ini_file, log_file>>

\* verify_no_errors_for_component(component_id) reading the log itself
CallVerifyNoErrorsForComponent ==
    /\ pc = "idle"
    /\ pc' = "done"
    /\ \E component_id \in InputIds, fault \in BOOLEAN :
        LET tail == get_log_tail(DefaultMaxLines, fault)
        IN  /\ call' = [name |-> "verify_no_errors_for_component",
                        component_id |-> component_id]
            /\ IF tail.raised # NoExc
               THEN /\ raised' = tail.raised
                    /\ ret' = << >>
               ELSE /\ raised' = NoExc
                    /\ ret' = <<verify_no_errors_for_component(component_id,
                                                               tail.value)>>
    /\ UNCHANGED <<backend_verifier, log_verifier, op, result, wait, batch, calls,
                   lock_files, now, ssh_connected, ini_file, log_file>>

InitLog ==
    /\ InitCommon
    /\ backend_verifier = FALSE
    /\ log_verifier = TRUE
    /\ ini_file = GoodIni
    /\ log_file \in SeqsUpTo(LogLines, MaxLogLines)

NextLog ==
    \/ CallVerifyCompleteUpdateCycle
    \/ CallVerifyNoErrorsForComponent
    \/ Connect
    \/ Discard

SpecLog == InitLog /\ [][NextLog]_vars

-----------------------------------------------------------------------------
(* VerificationWorkflow.verify_component_state *)

\* max_lines=500 of the log level
LogLevelTailLines == 500

\* _verify_ui_level: navigate and the page title check; any exception makes
\* the level fail
_verify_ui_level(navExc, titleExc) ==
    LET e == IF navExc # NoExc THEN navExc ELSE titleExc
    IN  IF e = NoExc
        THEN [level |-> "ui", passed |-> TRUE, error |-> << >>,
              checks |-> <<[name |-> "Page loaded", passed |-> TRUE]>>]
        ELSE [level |-> "ui", passed |-> FALSE, error |-> <<e.msg>>,
              checks |-> <<[name |-> "Page loaded", passed |-> FALSE]>>]

\* A truthiness under which every value, None included, is truthy
TruthyAlways(v) == TRUE

\* Python truthiness of an optional string: None and '' are falsy
Truthy(v) == v # None /\ v # ""

\* _verify_backend_level
_verify_backend_level(component_id, expected_version, fault) ==
    LET version == get_component_version_from_ini(component_id, fault)
        retrieved == [name |-> "Version retrieved", passed |-> Truthy(version)]
        version_match == version = expected_version
    IN  IF Truthy(version)
        THEN IF Truthy(expected_version)
             THEN [level |-> "backend", passed |-> version_match,
                   current_version |-> version, error |-> << >>,
                   checks |-> <<retrieved,
                                [name |-> "Version match", passed |-> version_match]>>]
             ELSE [level |-> "backend", passed |-> TRUE,
                   current_version |-> version, error |-> << >>,
                   checks |-> <<retrieved>>]
        ELSE [level |-> "backend", passed |-> FALSE,
              current_version |-> version, error |-> << >>,
              checks |-> <<retrieved>>]

\* _verify_log_level
_verify_log_level(component_id, fault) ==
    LET tail == get_log_tail(LogLevelTailLines, fault)
        no_errors == verify_no_errors_for_component(component_id, tail.value)
    IN  IF tail.raised # NoExc
        THEN [level |-> "log", passed |-> FALSE, error_count |-> 0,
              error |-> <<tail.raised.msg>>, checks |-> << >>]
        ELSE [level |-> "log", passed |-> no_errors.ok,
              error_count |-> Len(no_errors.lines), error |-> << >>,
              checks |-> <<[name |-> "No errors", passed |-> no_errors.ok]>>]

\* A level that did not pass clears all_passed but leaves no label
NoteLevelUnlabelled(r, level_result, label) ==
    IF ~level_result.passed THEN [r EXCEPT !.all_passed = FALSE] ELSE r

\* Lines 125-127, 135-137, 145-147: a level that did not pass is recorded
NoteLevel(r, level_result, label) ==
    IF ~level_result.passed
    THEN [r EXCEPT !.all_passed = FALSE, !.failures = Append(@, label)]
    ELSE r

\* The levels verify_component_state runs
RunsUi(check_ui) == check_ui
RunsBackend(check_backend) == check_backend /\ backend_verifier

\* A log level that runs whenever a log verifier is configured
RunsLogAlways(check_logs) == log_verifier

RunsLog(check_logs) == check_logs /\ log_verifier

verify_component_state(component_id, expected_version, check_ui, check_backend, check_logs, navExc, titleExc, fault_ini, fault_log) ==
    LET r0 == [component_id |-> component_id,
               expected_version |-> expected_version,
               all_passed |-> TRUE,
               ui_verification |-> << >>,
               backend_verification |-> << >>,
               log_verification |-> << >>,
               failures |-> << >>]
        ui_result == _verify_ui_level(navExc, titleExc)
        r1 == IF RunsUi(check_ui)
              THEN NoteLevel([r0 EXCEPT !.ui_verification = <<ui_result>>],
                             ui_result, "UI verification failed")
              ELSE r0
        backend_result == _verify_backend_level(component_id, expected_version, fault_ini)
        r2 == IF RunsBackend(check_backend)
              THEN NoteLevel([r1 EXCEPT !.backend_verification = <<backend_result>>],
                             backend_result, "Backend verification failed")
              ELSE r1
        log_result == _verify_log_level(component_id, fault_log)
        r3 == IF RunsLog(check_logs)
              THEN NoteLevel([r2 EXCEPT !.log_verification = <<log_result>>],
                             log_result, "Log verification failed")
              ELSE r2
    IN  r3

CallVerifyComponentState ==
    /\ pc = "idle"
    /\ pc' = "done"
    /\ \E component_id \in InputIds, expected_version \in {None} \cup Versions,
          check_ui, check_backend, check_logs \in BOOLEAN,
          ui \in UiOutcomes, fault_ini, fault_log \in BOOLEAN :
        /\ call' = [name |-> "verify_component_state",
                    component_id |-> component_id,
                    expected_version |-> expected_version,
                    check_ui |-> check_ui, check_backend |-> check_backend,
                    check_logs |-> check_logs,
                    page_loaded |-> ui = <<NoExc, NoExc>>]
        /\ ret' = <<verify_component_state(component_id, expected_version, check_ui,
                                           check_backend, check_logs, ui[1], ui[2],
                                           fault_ini, fault_log)>>
    /\ raised' = NoExc
    /\ UNCHANGED <<backend_verifier, log_verifier, op, result, wait, batch, calls,
                   lock_files, now, ssh_connected, ini_file, log_file>>

\* BackendVerification.verify_component_version: (is_match, actual_version)
verify_component_version(component_id, expected_version, fault) ==
    LET actual_version == get_component_version_from_ini(component_id, fault)
    IN  IF actual_version = None
        THEN <<FALSE, None>>
        ELSE <<actual_version = expected_version, actual_version>>

CallVerifyComponentVersion ==
    /\ pc = "idle"
    /\ backend_verifier
    /\ pc' = "done"
    /\ \E component_id \in InputIds, expected_version \in Versions, fault \in BOOLEAN :
        /\ call' = [name |-> "verify_component_version",
                    component_id |-> component_id,
                    expected_version |-> expected_version]
        /\ ret' = <<verify_component_version(component_id, expected_version, fault)>>
    /\ raised' = NoExc
    /\ UNCHANGED <<backend_verifier, log_verifier, op, result, wait, batch, calls,
                   lock_files, now, ssh_connected, ini_file, log_file>>

\* The config file: absent, or holding the pattern version, or not holding it
IniFiles ==
    {[exists |-> FALSE, data |-> << >>],
     [exists |-> TRUE, data |-> [k \in {"EngineVersion"} |-> "1.0.0.0"]]}
    \cup {[exists |-> TRUE, data |-> [k \in {"PTNVersion"} |-> v]] : v \in Versions}

InitVerify ==
    /\ InitCommon
    /\ backend_verifier \in BOOLEAN
    /\ log_verifier \in BOOLEAN
    /\ ini_file \in IniFiles
    /\ log_file \in LogFiles

NextVerify ==
    \/ CallVerifyComponentState
    \/ CallVerifyComponentVersion
    \/ Connect
    \/ Discard

SpecVerify == InitVerify /\ [][NextVerify]_vars

-----------------------------------------------------------------------------
(* Properties of execute_rollback and execute_normal_update (Spec) *)

\* C1: execute_rollback on a registered component whose ROLLBACK_SUPPORTED
\* entry is False never navigates to the update page, never checks its title
\* and never triggers the rollback, whatever the verification flags, the
\* timeout and the configured verifiers: at every moment of the call, and so
\* when it returns, the trigger count is zero.
C1_UnsupportedRollbackNeverTriggers ==
    (op.kind = "rollback" /\ op.component_id \in ComponentIds
        /\ ~ROLLBACK_SUPPORTED[op.component_id])
    => /\ calls.triggers = << >>
       /\ calls.navigate = 0
       /\ calls.verify_page_title = 0
       /\ pc # "rollback_sleep"

\* A rollback of TMUFEENG with pre-verification, a backend verifier and a
\* timeout override has returned its failure result.
C1_Witness ==
    /\ pc = "done"
    /\ op.kind = "rollback"
    /\ op.component_id = "TMUFEENG"
    /\ op.verify_before /\ backend_verifier
    /\ op.timeout = <<1>>
    /\ ~result.success
    /\ Contains(result.message, <<" does not support rollback. ">>)

C9_LockNeverClearsReportsTimeout ==
    (pc = "done" /\ op.kind = "update" /\ wait.caller = "update"
        /\ op.component_id \in ComponentIds
        /\ ~wait.seen_absent
        /\ result.error = << >>)
    => /\ raised = NoExc
       /\ ~result.success
       /\ result.message = <<"Update timeout after ", ToString(op.update_timeout), "s">>
       /\ Len(calls.triggers) = 1

\* C10: execute_normal_update with a component id that is not registered
\* never returns a result with success = True.
C10_UnregisteredUpdateNeverSucceeds ==
    (pc = "done" /\ op.kind = "update" /\ op.component_id \notin ComponentIds)
    => ~result.success

-----------------------------------------------------------------------------
(* Properties of the batch operations (SpecBatch) *)

\* C2: in execute_update_all with continue_on_error = False, once a
\* component's update has failed no later component is attempted: the batch
\* has returned with exactly that one failure, the attempts are the
\* components up to and including the failed one, nothing was triggered for
\* a later one, and the results hold those components only.  (For [A, B, C]
\* with A failing: results hold only A, no trigger for B or C.)
C2_UpdateBatchStopsAtFirstFailure ==
    (batch.operation = "update" /\ ~batch.continue_on_error /\ batch.failure_count > 0)
    => /\ ~batch.active /\ pc = "done"
       /\ batch.failure_count = 1
       /\ batch.success_count = batch.i - 1
       /\ batch.success = <<FALSE>>
       /\ Len(calls.attempts) = batch.i
       /\ \A k \in 1..batch.i :
            calls.attempts[k] = <<"update", batch.component_ids[k]>>
       /\ Len(calls.triggers) <= batch.i
       /\ \A k \in 1..Len(calls.triggers) :
            \E j \in 1..batch.i : calls.triggers[k] = <<"update", batch.component_ids[j]>>
       /\ DOMAIN batch.component_results = {batch.component_ids[k] : k \in 1..batch.i}
       /\ ~batch.component_results[batch.component_ids[batch.i]].success

\* A batch [A, B, A] without continue_on_error has returned after A's
\* update was triggered and failed: only A is in the results.
C2_Witness ==
    /\ pc = "done"
    /\ batch.operation = "update"
    /\ ~batch.continue_on_error
    /\ Len(batch.component_ids) = 3
    /\ batch.component_ids[2] # batch.component_ids[1]
    /\ batch.i = 1
    /\ batch.failure_count = 1
    /\ calls.triggers = <<<<"update", batch.component_ids[1]>>>>
    /\ DOMAIN batch.component_results = {batch.component_ids[1]}

\* C8: in execute_batch_rollback a component that fails can_rollback is
\* recorded as skipped and counted in skipped_count, not in failure_count;
\* it is never attempted or triggered and never stops the batch: the batch
\* returns early only with continue_on_error = False, at the first component
\* that was attempted and failed.
C8_RollbackBatchSkipsUnsupported ==
    batch.operation = "rollback"
    => LET ids == batch.component_ids
           processed == IF batch.active THEN batch.i - 1
                        ELSE IF batch.i > Len(ids) THEN Len(ids) ELSE batch.i
           unsupported(k) == ~DictGet(ROLLBACK_SUPPORTED, ids[k], FALSE)
       IN  /\ batch.skipped_count = Cardinality({k \in 1..processed : unsupported(k)})
           /\ batch.success_count + batch.failure_count
                = Cardinality({k \in 1..processed : ~unsupported(k)})
           /\ \A k \in 1..processed :
                unsupported(k)
                => /\ batch.component_results[ids[k]].skipped
                   /\ ~batch.component_results[ids[k]].success
           /\ \A k \in 1..Len(calls.attempts) :
                DictGet(ROLLBACK_SUPPORTED, calls.attempts[k][2], FALSE)
           /\ \A k \in 1..Len(calls.triggers) :
                DictGet(ROLLBACK_SUPPORTED, calls.triggers[k][2], FALSE)
           /\ ~batch.active
              => IF batch.i <= Len(ids)
                 THEN /\ ~batch.continue_on_error
                      /\ batch.failure_count = 1
                      /\ ~unsupported(batch.i)
                      /\ ~batch.component_results[ids[batch.i]].skipped
                      /\ ~batch.component_results[ids[batch.i]].success
                 ELSE batch.success = <<batch.failure_count = 0>>

\* A rollback batch without continue_on_error has skipped TMUFEENG, gone on
\* to PTN and returned at PTN's failed rollback, one component unprocessed.
C8_Witness ==
    /\ pc = "done"
    /\ batch.operation = "rollback"
    /\ ~batch.continue_on_error
    /\ batch.component_ids = <<"TMUFEENG", "PTN", "TMUFEENG">>
    /\ batch.i = 2
    /\ batch.skipped_count = 1
    /\ batch.failure_count = 1
    /\ batch.component_results["TMUFEENG"].skipped

-----------------------------------------------------------------------------
(* Properties of wait_for_lock_file_removal (SpecWait) *)

\* C3: a connected wait_for_lock_file_removal on a registered component
\* raises nothing and returns True exactly when the lock file was absent at
\* some moment strictly before the timeout elapsed; it returns False when
\* the lock file never cleared within the timeout.
C3_TrueIffLockClearedBeforeTimeout ==
    (pc = "done" /\ wait.caller = "direct" /\ ssh_connected
        /\ wait.component_id \in ComponentIds)
    => /\ raised = NoExc
       /\ wait.ret # << >>
       /\ wait.ret = <<wait.seen_absent>>

-----------------------------------------------------------------------------
(* Properties of verify_complete_update_cycle (SpecLog) *)

\* C4: verify_complete_update_cycle(id, expected_version = v) returns
\* success = False whenever no extracted version-change record of the log
\* has its to_version equal to v, even when the started, completed and
\* no-errors checks all pass.
C4_VersionMismatchFailsTheCycle ==
    (pc = "done" /\ call.name = "verify_complete_update_cycle" /\ ret # << >>
        /\ call.expected_version # None
        /\ \A k \in DOMAIN extract_version_change(log_file) :
              extract_version_change(log_file)[k].to_version # call.expected_version)
    => ~ret[1].success

-----------------------------------------------------------------------------
(* Properties of verify_component_state (SpecVerify) *)

\* C6: all_passed of verify_component_state is the conjunction of the
\* 'passed' verdicts of the levels that were run; a level that is disabled,
\* or whose verifier is not configured, is not run, has no entry in the
\* result and contributes nothing.  With UI and backend enabled, logs
\* disabled, the page loaded and the backend version equal to the expected
\* one, all_passed is True.
C6_AllPassedIsConjunctionOfRunLevels ==
    (pc = "done" /\ call.name = "verify_component_state")
    => LET r == ret[1]
           ui_run == call.check_ui
           backend_run == call.check_backend /\ backend_verifier
           log_run == call.check_logs /\ log_verifier
       IN  /\ (r.ui_verification # << >>) = ui_run
           /\ (r.backend_verification # << >>) = backend_run
           /\ (r.log_verification # << >>) = log_run
           /\ r.all_passed
                = /\ (ui_run => r.ui_verification[1].passed)
                  /\ (backend_run => r.backend_verification[1].passed)
                  /\ (log_run => r.log_verification[1].passed)
           /\ (/\ call.check_ui /\ call.check_backend /\ ~call.check_logs
               /\ call.page_loaded
               /\ backend_run
               /\ call.expected_version # None
               /\ r.backend_verification[1].current_version = call.expected_version)
              => r.all_passed

\* UI and backend levels ran, logs disabled although a log verifier is
\* configured and the log has an error line for the component; the page
\* loaded, the backend version is the expected one, and all_passed is True.
C6_Witness ==
    /\ pc = "done"
    /\ call.name = "verify_component_state"
    /\ call.component_id = "PTN"
    /\ call.check_ui /\ call.check_backend /\ ~call.check_logs
    /\ call.page_loaded
    /\ log_verifier /\ ssh_connected
    /\ ~verify_no_errors_for_component("PTN", log_file).ok
    /\ call.expected_version = "1.0.0.0"
    /\ ret[1].backend_verification # << >>
    /\ ret[1].backend_verification[1].current_version = "1.0.0.0"
    /\ ret[1].all_passed

\* C7: the failures list of verify_component_state holds exactly one label
\* for each level that was run and did not pass, in the order UI, Backend,
\* Log; all_passed is False exactly when the list is non-empty.  When only
\* the backend version differs from the expected one the list is exactly
\* <<"Backend verification failed">>.
C7_FailuresListsFailedLevelsInOrder ==
    (pc = "done" /\ call.name = "verify_component_state")
    => LET r == ret[1]
           failed(v) == v # << >> /\ ~v[1].passed
       IN  /\ r.failures
                = (IF failed(r.ui_verification)
                   THEN <<"UI verification failed">> ELSE << >>)
                  \o (IF failed(r.backend_verification)
                      THEN <<"Backend verification failed">> ELSE << >>)
                  \o (IF failed(r.log_verification)
                      THEN <<"Log verification failed">> ELSE << >>)
           /\ (~r.all_passed) = (r.failures # << >>)
           /\ (/\ call.check_ui /\ call.page_loaded
               /\ r.backend_verification # << >>
               /\ call.expected_version # None
               /\ r.backend_verification[1].current_version
                    \notin {None, call.expected_version}
               /\ ~failed(r.log_verification))
              => r.failures = <<"Backend verification failed">>

\* All three levels ran; the UI and log levels passed and the backend holds
\* a version other than the expected one: the list has the backend label only.
C7_Witness ==
    /\ pc = "done"
    /\ call.name = "verify_component_state"
    /\ call.check_ui /\ call.check_backend /\ call.check_logs
    /\ call.page_loaded
    /\ call.expected_version = "1.2.3.4"
    /\ ret[1].backend_verification # << >>
    /\ ret[1].backend_verification[1].current_version = "1.0.0.0"
    /\ ret[1].log_verification # << >>
    /\ ret[1].log_verification[1].passed
    /\ ret[1].failures = <<"Backend verification failed">>
    /\ ~ret[1].all_passed

-----------------------------------------------------------------------------
(* Single rollbacks whose collaborators may raise any exception type *)

\* navigate() raising an exception of a type the rollback's handlers tell
\* apart: ValueError is caught by the handler of lines 224-234, every other
\* type by the handler of lines 236-245
RaisingNavOutcomes ==
    NavOutcomes \cup {Exc("ValueError", <<"invalid argument">>)}

\* The handler that catches e: the ValueError handler sets message = str(e),
\* the generic one prefixes it
RollbackHandlerPrefix(e) ==
    IF e.type = "ValueError" THEN << >> ELSE <<"Rollback failed: ">>

ExecuteRollbackRaising ==
    /\ pc = "idle"
    /\ \E component_id \in InputIds, timeout \in TimeoutArgs,
          verify_before, verify_after \in BOOLEAN,
          navExc \in RaisingNavOutcomes, fault \in BOOLEAN :
        IF navExc # NoExc /\ can_rollback(component_id)
        THEN LET r0 == InitResult("rollback", component_id)
                 pre_taken == PreTaken(verify_before)
                 pre_version == _get_component_version_safe(component_id, fault)
                 r1 == IF pre_taken
                       THEN [r0 EXCEPT !.pre_verification = <<pre_version>>] ELSE r0
             IN  /\ op' = [kind |-> "rollback", component_id |-> component_id,
                           verify_before |-> verify_before,
                           verify_after |-> verify_after,
                           verify_logs |-> FALSE, timeout |-> timeout,
                           update_timeout |-> RollbackTimeout(component_id, timeout),
                           start_time |-> 0,
                           pre_version |-> IF pre_taken THEN <<pre_version>> ELSE << >>]
                 /\ now' = 0
                 /\ raised' = NoExc
                 /\ wait' = IdleWait
                 /\ calls' = [FreshCalls EXCEPT
                                !.attempts = <<<<"rollback", component_id>>>>,
                                !.navigate = 1,
                                !.exceptions =
                                    (IF pre_taken
                                     THEN VersionReadRaising(component_id, fault)
                                     ELSE {})
                                    \cup {[where |-> "navigate", msg |-> navExc.msg]}]
                 /\ result' = FailedResult(r1, RollbackHandlerPrefix(navExc), navExc, 0, 0)
                 /\ pc' = "done"
        ELSE BeginRollback(FreshCalls, component_id, verify_before, verify_after,
                           timeout, NoExc, NoExc, fault)
    /\ UNCHANGED <<backend_verifier, log_verifier, batch,
                   lock_files, ssh_connected, ini_file, log_file, call, ret>>

InitOutcome ==
    /\ InitCommon
    /\ backend_verifier \in BOOLEAN
    /\ log_verifier = FALSE
    /\ ini_file = GoodIni
    /\ log_file = GoodLog

NextOutcome ==
    \/ ExecuteRollbackRaising
    \/ RollbackWake
    \/ Connect
    \/ Discard

SpecOutcome == InitOutcome /\ [][NextOutcome]_vars

\* C11: the result of a rollback on a component without rollback support
\* carries a not-supported outcome that tells it apart from an attempted and
\* failed rollback.  The single result has no outcome field besides the
\* boolean 'success'; what the not-supported handler leaves is message =
\* str(e), the bare exception text with error equal to it.  Stated on that:
\* a failed single rollback has this shape exactly when the component lacks
\* rollback support (and nothing was attempted).
C11_NotSupportedOutcomeIsDistinct ==
    (pc = "done" /\ op.kind = "rollback" /\ ~result.success)
    => ((result.error = <<result.message>>)
        <=> (~DictGet(ROLLBACK_SUPPORTED, op.component_id, FALSE)
             /\ calls.navigate = 0))

-----------------------------------------------------------------------------
(* Direct calls of the backend verifier's reads *)

\* get_component_version_from_ini(component_id): the method catches every
\* exception, so nothing is ever raised to the caller
CallGetComponentVersionFromIni ==
    /\ pc = "idle"
    /\ pc' = "done"
    /\ \E component_id \in InputIds, fault \in BOOLEAN :
        /\ call' = [name |-> "get_component_version_from_ini",
                    component_id |-> component_id, fault |-> fault]
        /\ ret' = <<get_component_version_from_ini(component_id, fault)>>
    /\ raised' = NoExc
    /\ UNCHANGED <<backend_verifier, log_verifier, op, result, wait, batch, calls,
                   lock_files, now, ssh_connected, ini_file, log_file>>

\* check_lock_file_exists(component_id); 'present' records whether the lock
\* file was there when the call was made
CallCheckLockFileExists ==
    /\ pc = "idle"
    /\ pc' = "done"
    /\ \E component_id \in InputIds, fault \in BOOLEAN :
        LET chk == check_lock_file_exists(component_id, fault)
        IN  /\ call' = [name |-> "check_lock_file_exists",
                        component_id |-> component_id, fault |-> fault,
                        present |-> ~LockAbsent(component_id, lock_files)]
            /\ raised' = chk.raised
            /\ ret' = IF chk.raised # NoExc THEN << >> ELSE <<chk.value>>
    /\ UNCHANGED <<backend_verifier, log_verifier, op, result, wait, batch, calls,
                   lock_files, now, ssh_connected, ini_file, log_file>>

InitBackend ==
    /\ InitCommon
    /\ backend_verifier = TRUE
    /\ log_verifier = FALSE
    /\ ini_file \in IniFiles
    /\ log_file = GoodLog

NextBackend ==
    \/ CallGetComponentVersionFromIni
    \/ CallCheckLockFileExists
    \/ LockCreate
    \/ LockRemove
    \/ Connect
    \/ Discard

SpecBackend == InitBackend /\ [][NextBackend]_vars

\* C12: get_component_version_from_ini on a registered component returns
\* None, raising nothing, when the config file was read but does not hold
\* the component's key, and signals an error (raises, does not return None)
\* when the config file does not exist.
C12_MissingFileIsAnErrorMissingKeyIsNot ==
    (pc = "done" /\ call.name = "get_component_version_from_ini"
        /\ call.component_id \in ComponentIds /\ ssh_connected)
    => /\ (ini_file.exists /\ ~call.fault
           /\ COMPONENT_INI_KEYS[call.component_id] \notin DOMAIN ini_file.data)
          => (raised = NoExc /\ ret = <<None>>)
       /\ ~ini_file.exists => (raised # NoExc /\ ret # <<None>>)

\* C13: check_lock_file_exists on a registered component over a connected
\* session returns False when the lock file is not found and True when it
\* exists, and raises when the remote stat fails for a transport-level
\* reason: such a failure is never reported as False.
C13_TransportFailureIsNotNoLock ==
    (pc = "done" /\ call.name = "check_lock_file_exists"
        /\ call.component_id \in ComponentIds /\ ssh_connected)
    => IF call.fault
       THEN raised # NoExc /\ ret = << >>
       ELSE raised = NoExc /\ ret = <<call.present>>

-----------------------------------------------------------------------------
(* The registry lookups: can_rollback, get_rollback_info and the timeout   *)
(* lookups of execute_normal_update and execute_rollback                   *)

\* Every registered id, one that is not registered, and the empty string
RegistryIds == ComponentIds \cup {"NOSUCH", ""}

\* RollbackWorkflow.get_rollback_info without a backend verifier
get_rollback_info(component_id) ==
    [component_id |-> component_id,
     supported |-> can_rollback(component_id),
     timeout |-> DictGet(ROLLBACK_TIMEOUTS, component_id, 0),
     current_version |-> None,
     reason |-> IF can_rollback(component_id) THEN << >>
                ELSE <<component_id, " does not support rollback operation">>]

\* One lookup is made and returns: none of them has a raising path
CallLookup ==
    /\ pc = "idle"
    /\ pc' = "done"
    /\ \E component_id \in RegistryIds :
        \/ /\ call' = [name |-> "can_rollback", component_id |-> component_id]
           /\ ret' = <<can_rollback(component_id)>>
        \/ /\ call' = [name |-> "get_rollback_info", component_id |-> component_id]
           /\ ret' = <<get_rollback_info(component_id)>>
        \/ \E timeout \in TimeoutArgs :
            /\ call' = [name |-> "update_timeout", component_id |-> component_id,
                        timeout |-> timeout]
            /\ ret' = <<UpdateTimeout(component_id, timeout)>>
        \/ \E timeout \in TimeoutArgs :
            /\ call' = [name |-> "rollback_timeout", component_id |-> component_id,
                        timeout |-> timeout]
            /\ ret' = <<RollbackTimeout(component_id, timeout)>>
    /\ raised' = NoExc
    /\ UNCHANGED <<backend_verifier, log_verifier, op, result, wait, batch, calls,
                   lock_files, now, ssh_connected, ini_file, log_file>>

InitRegistry ==
    /\ InitCommon
    /\ backend_verifier = FALSE
    /\ log_verifier = FALSE
    /\ ini_file = GoodIni
    /\ log_file = GoodLog

NextRegistry ==
    \/ CallLookup
    \/ Discard

SpecRegistry == InitRegistry /\ [][NextRegistry]_vars

\* C14: can_rollback and the update and rollback timeout lookups raise
\* nothing for a registered component id and raise an unknown-component
\* error, returning no value, for every id that is not registered; none of
\* them substitutes a default for such an id.
C14_LookupsRaiseForUnregisteredIds ==
    (pc = "done"
        /\ call.name \in {"can_rollback", "get_rollback_info",
                          "update_timeout", "rollback_timeout"})
    => IF call.component_id \in ComponentIds
       THEN raised = NoExc /\ ret # << >>
       ELSE raised # NoExc /\ ret = << >>

-----------------------------------------------------------------------------
(* Termination of wait_for_lock_file_removal.  The thread that runs the    *)
(* loop keeps running: each evaluation of the loop test and each sleep     *)
(* that is due eventually happens.  The lock file and the clock of the     *)
(* model are as in SpecWait: a poll takes no time, a sleep takes           *)
(* check_interval.                                                         *)

SpecWaitFair == SpecWait /\ WF_vars(WaitLoop) /\ WF_vars(WaitSleep)

-----------------------------------------------------------------------------
(* VerificationWorkflow.verify_system_health *)

\* max_lines=500 of the health check's log summary
HealthLogLines == 500

\* Output of  uname -r  on the appliance
KernelRelease == "5.14.0-427.24.1.el9_4.x86_64"

\* BackendVerification.get_kernel_version: the command's output, or the
\* exception of the command, re-raised
get_kernel_version(fault) == execute_command_with_output(KernelRelease, fault)

\* SSHHelper.is_service_running / BackendVerification.is_iwss_service_running:
\* every exception of the command is caught and reported as not running
is_iwss_service_running(active, fault) ==
    IF ~ssh_connected \/ fault THEN FALSE ELSE active

\* LogVerification.find_errors_in_log over given content
find_errors_in_log(log_content) ==
    search_pattern(Alternatives(PATTERNS_error), log_content)

\* LogVerification.find_warnings_in_log: PATTERNS['warning']
find_warnings_in_log(log_content) ==
    search_pattern({<<"warning">>, <<"warn">>}, log_content)

\* LogVerification.get_log_summary(max_lines): the counts, or the exception
\* of the log read
get_log_summary(max_lines, fault) ==
    LET tail == get_log_tail(max_lines, fault)
    IN  IF tail.raised # NoExc
        THEN [raised |-> tail.raised, value |-> << >>]
        ELSE [raised |-> NoExc,
              value |-> [total_lines |-> Len(tail.value),
                         error_count |-> Len(find_errors_in_log(tail.value)),
                         warning_count |-> Len(find_warnings_in_log(tail.value))]]

\* The handler of the log sub-check: the exception is only logged
LogCheckRaised(r, e) == r

\* verify_system_health: 'checks' entries are <<>> while the key is absent
verify_system_health(fault_kernel, active, fault_service, fault_log) ==
    LET r0 == [healthy |-> TRUE, kernel |-> << >>, service |-> << >>, logs |-> << >>,
               issues |-> << >>]
        kernel == get_kernel_version(fault_kernel)
        r1 == IF ~backend_verifier THEN r0
              ELSE IF kernel.raised # NoExc
              THEN [r0 EXCEPT !.healthy = FALSE,
                              !.issues = Append(@, <<"Kernel check failed: ">>
                                                     \o kernel.raised.msg),
                              !.kernel = <<[passed |-> FALSE]>>]
              ELSE [r0 EXCEPT !.kernel = <<[passed |-> TRUE]>>]
        is_running == is_iwss_service_running(active, fault_service)
        r2 == IF ~backend_verifier THEN r1
              ELSE IF ~is_running
              THEN [r1 EXCEPT !.healthy = FALSE,
                              !.issues = Append(@, <<"IWSS service is not running">>),
                              !.service = <<[passed |-> FALSE]>>]
              ELSE [r1 EXCEPT !.service = <<[passed |-> TRUE]>>]
        summary == get_log_summary(HealthLogLines, fault_log)
        r3 == IF ~log_verifier THEN r2
              ELSE IF summary.raised # NoExc THEN LogCheckRaised(r2, summary.raised)
              ELSE LET n == summary.value.error_count
                       r == [r2 EXCEPT !.logs = <<[passed |-> n = 0, error_count |-> n]>>]
                   IN  IF n > 0
                       THEN [r EXCEPT !.healthy = FALSE,
                                      !.issues = Append(@, <<ToString(n),
                                                             " errors in recent logs">>)]
                       ELSE r
    IN  r3

\* A call of verify_system_health.  'attempted', 'raising' and 'failing'
\* record the sub-checks that were called, that raised and that returned a
\* failing answer; 'active' whether the service was running.
CallVerifySystemHealth ==
    /\ pc = "idle"
    /\ pc' = "done"
    /\ \E fault_kernel, active, fault_service, fault_log \in BOOLEAN :
        LET kernel == get_kernel_version(fault_kernel)
            is_running == is_iwss_service_running(active, fault_service)
            summary == get_log_summary(HealthLogLines, fault_log)
        IN  /\ call' = [name |-> "verify_system_health",
                        active |-> active,
                        attempted |-> (IF backend_verifier THEN {"kernel", "service"}
                                       ELSE {})
                                      \cup (IF log_verifier THEN {"logs"} ELSE {}),
                        raising |-> (IF backend_verifier /\ kernel.raised # NoExc
                                     THEN {"kernel"} ELSE {})
                                    \cup (IF log_verifier /\ summary.raised # NoExc
                                          THEN {"logs"} ELSE {}),
                        failing |-> (IF backend_verifier /\ ~is_running
                                     THEN {"service"} ELSE {})
                                    \cup (IF log_verifier /\ summary.raised = NoExc
                                             /\ summary.value.error_count > 0
                                          THEN {"logs"} ELSE {})]
            /\ ret' = <<verify_system_health(fault_kernel, active, fault_service,
                                             fault_log)>>
    /\ raised' = NoExc
    /\ UNCHANGED <<backend_verifier, log_verifier, op, result, wait, batch, calls,
                   lock_files, now, ssh_connected, ini_file, log_file>>

InitHealth ==
    /\ InitCommon
    /\ backend_verifier \in BOOLEAN
    /\ log_verifier \in BOOLEAN
    /\ ini_file = GoodIni
    /\ log_file \in SeqsUpTo(LogLines, MaxLogLines)

NextHealth ==
    \/ CallVerifySystemHealth
    \/ Connect
    \/ Discard

SpecHealth == InitHealth /\ [][NextHealth]_vars

\* C16: verify_system_health calls every configured sub-check (kernel
\* version, service state, recent log errors) even when an earlier one
\* failed or raised, and every sub-check that failed or raised has appended
\* one issue string to 'issues' and made 'healthy' False.
C16_EveryFailedSubCheckIsAnIssue ==
    (pc = "done" /\ call.name = "verify_system_health")
    => /\ call.attempted = (IF backend_verifier THEN {"kernel", "service"} ELSE {})
                           \cup (IF log_verifier THEN {"logs"} ELSE {})
       /\ Len(ret[1].issues) = Cardinality(call.raising \cup call.failing)
       /\ (call.raising \cup call.failing # {}) => ~ret[1].healthy

\* C17: with both verifiers configured, verify_system_health returns
\* healthy = False whenever the recent log window holds at least one error
\* line, whatever the kernel and service sub-checks report, and healthy =
\* True only if the kernel version was read, the service is running and the
\* log window was read and holds no error line.
C17_HealthyOnlyWithoutLogErrors ==
    (pc = "done" /\ call.name = "verify_system_health"
        /\ backend_verifier /\ log_verifier)
    => /\ Len(find_errors_in_log(LastN(log_file, HealthLogLines))) > 0
          => ~ret[1].healthy
       /\ ret[1].healthy
          => /\ "kernel" \notin call.raising
             /\ call.active
             /\ ret[1].logs # << >>
             /\ ret[1].logs[1].error_count = 0

-----------------------------------------------------------------------------
(* The update cycle without an expected version *)

\* The orderings of a sequence's elements
Orderings(s) ==
    {[i \in 1..Len(s) |-> s[p[i]]] :
        p \in {q \in [1..Len(s) -> 1..Len(s)] : \A i, j \in 1..Len(s) : q[i] = q[j] => i = j}}

\* C18: verify_complete_update_cycle called without an expected version
\* returns success = True exactly when the log window holds a line matching
\* the component's update-started pattern, a line matching its
\* update-success pattern and no line matching its error pattern; the
\* verdict is the same for every ordering of the window's lines, and no
\* version check is made or needed.
C18_CycleWithoutVersionIsThreeChecks ==
    (pc = "done" /\ call.name = "verify_complete_update_cycle"
        /\ call.expected_version = None /\ raised = NoExc)
    => LET c == call.component_id
           window == LastN(log_file, DefaultMaxLines)
           lines == 1..Len(window)
       IN  /\ ret[1].version_changed = << >>
           /\ "version_changed" \notin ret[1].failed_checks
           /\ ret[1].success
              <=> /\ \E k \in lines : verify_update_started(c, <<window[k]>>).ok
                  /\ \E k \in lines : verify_update_success(c, <<window[k]>>).ok
                  /\ \A k \in lines : verify_no_errors_for_component(c, <<window[k]>>).ok
           /\ \A other \in Orderings(window) :
                 verify_complete_update_cycle(c, None, other).success = ret[1].success

\* A verified cycle whose success line precedes its started line
C18_Witness ==
    /\ pc = "done"
    /\ call.name = "verify_complete_update_cycle"
    /\ call.expected_version = None
    /\ raised = NoExc
    /\ log_file = <<<<"PTN", "update", "success">>, <<"PTN", "update", "started">>>>
    /\ call.component_id = "PTN"
    /\ ret[1].success

-----------------------------------------------------------------------------
(* BackendVerification.parse_ini_file over text *)

MaxIniLen == 5          \* longest config text, in characters

\* Characters of the config text in the model
IniChars == {"a", "b", " ", "=", "#", ";", "\n"}

\* Characters str.strip() removes (a line holds no "\n" after the split)
Whitespace == {" "}

\* str.strip() that removes nothing
StripNothing(s) == s

\* str.strip()
RECURSIVE Strip(_)
Strip(s) ==
    IF s = << >> THEN s
    ELSE IF Head(s) \in Whitespace THEN Strip(Tail(s))
    ELSE IF s[Len(s)] \in Whitespace THEN Strip(SubSeq(s, 1, Len(s) - 1))
    ELSE s

\* str.split(sep): the pieces between the separators, in order
RECURSIVE Split(_, _)
Split(s, sep) ==
    IF \A i \in 1..Len(s) : s[i] # sep THEN <<s>>
    ELSE LET i == CHOOSE i \in 1..Len(s) :
                     s[i] = sep /\ \A j \in 1..(i - 1) : s[j] # sep
         IN  <<SubSeq(s, 1, i - 1)>> \o Split(SubSeq(s, i + 1, Len(s)), sep)

\* str.split(sep, 1): the text before the first separator and the text
\* after it (called only when the separator occurs)
SplitOnce(s, sep) ==
    LET i == CHOOSE i \in 1..Len(s) : s[i] = sep /\ \A j \in 1..(i - 1) : s[j] # sep
    IN  <<SubSeq(s, 1, i - 1), SubSeq(s, i + 1, Len(s))>>

\* The loop body of parse_ini_file for one line
ParseIniLine(ini_data, raw) ==
    LET line == Strip(raw)
    IN  IF line = << >> \/ Head(line) = "#" \/ Head(line) = ";" THEN ini_data
        ELSE IF \E i \in 1..Len(line) : line[i] = "="
        THEN LET kv == SplitOnce(line, "=")
             IN  DictPut(ini_data, Strip(kv[1]), Strip(kv[2]))
        ELSE ini_data

RECURSIVE ParseIniLines(_, _)
ParseIniLines(ini_data, lines) ==
    IF lines = << >> THEN ini_data
    ELSE ParseIniLines(ParseIniLine(ini_data, Head(lines)), Tail(lines))

\* BackendVerification.parse_ini_file: the dict, as a function from keys to
\* values
parse_ini_file(ini_content) == ParseIniLines(<< >>, Split(ini_content, "\n"))

CallParseIniFile ==
    /\ pc = "idle"
    /\ pc' = "done"
    /\ call' = [name |-> "parse_ini_file", ini_content |-> ini_file.content]
    /\ ret' = <<parse_ini_file(ini_file.content)>>
    /\ raised' = NoExc
    /\ UNCHANGED <<backend_verifier, log_verifier, op, result, wait, batch, calls,
                   lock_files, now, ssh_connected, ini_file, log_file>>

\* The config file holds any text over IniChars
InitIni ==
    /\ InitCommon
    /\ backend_verifier = TRUE
    /\ log_verifier = FALSE
    /\ ini_file \in {[exists |-> TRUE, content |-> t] : t \in SeqsUpTo(IniChars, MaxIniLen)}
    /\ log_file = GoodLog

NextIni ==
    \/ CallParseIniFile
    \/ Discard

SpecIni == InitIni /\ [][NextIni]_vars

\* t is s without its leading and trailing whitespace
IsTrimOf(t, s) ==
    \E i \in 1..(Len(s) + 1), j \in 0..Len(s) :
        /\ t = SubSeq(s, i, j)
        /\ \A k \in 1..Len(s) : (k < i \/ k > j) => s[k] \in Whitespace
        /\ t # << >> => (t[1] \notin Whitespace /\ t[Len(t)] \notin Whitespace)

\* The line is not blank, is not a comment and holds an '='
IsPairLine(l) ==
    /\ \E i \in 1..Len(l) : l[i] \notin Whitespace
    /\ \A i \in 1..Len(l) :
          (\A j \in 1..(i - 1) : l[j] \in Whitespace) => l[i] \notin {"#", ";"}
    /\ \E i \in 1..Len(l) : l[i] = "="

\* The position of the first '=' of l
IsFirstEq(i, l) == l[i] = "=" /\ \A j \in 1..(i - 1) : l[j] # "="

\* key is the trimmed text before the first '=' of l
IsKeyOf(key, l) ==
    \E i \in 1..Len(l) : IsFirstEq(i, l) /\ IsTrimOf(key, SubSeq(l, 1, i - 1))

\* value is the trimmed text after the first '=' of l
IsValueOf(value, l) ==
    \E i \in 1..Len(l) : IsFirstEq(i, l) /\ IsTrimOf(value, SubSeq(l, i + 1, Len(l)))

\* C19: parse_ini_file returns exactly the key/value pairs of the text's
\* lines that are not blank, do not start with '#' or ';' and hold an '=':
\* the key is the trimmed text before the line's first '=', the value the
\* trimmed text after it, '=' signs of the value included (the dict keeps
\* the last such line of a key); blank lines, comment lines and lines
\* without '=' contribute nothing.
C19_ParsedPairsAreTheKeyValueLines ==
    (pc = "done" /\ call.name = "parse_ini_file")
    => LET lines == Split(call.ini_content, "\n")
           pairs == {n \in 1..Len(lines) : IsPairLine(lines[n])}
       IN  /\ \A k \in DOMAIN ret[1] :
                 \E n \in pairs :
                    /\ IsKeyOf(k, lines[n])
                    /\ IsValueOf(ret[1][k], lines[n])
                    /\ \A m \in pairs : m > n => ~IsKeyOf(k, lines[m])
           /\ \A n \in pairs : \E k \in DOMAIN ret[1] : IsKeyOf(k, lines[n])

\* "a=b=a" parsed to {a: "b=a"}
C19_Witness ==
    /\ pc = "done"
    /\ call.name = "parse_ini_file"
    /\ call.ini_content = <<"a", "=", "b", "=", "a">>
    /\ DOMAIN ret[1] = {<<"a">>}
    /\ ret[1][<<"a">>] = <<"b", "=", "a">>

\* " a =b" parsed to {a: "b"}, the padded key trimmed
C19_WitnessTrimmed ==
    /\ pc = "done"
    /\ call.name = "parse_ini_file"
    /\ call.ini_content = <<" ", "a", " ", "=", "b">>
    /\ ret[1] = [k \in {<<"a">>} |-> <<"b">>]

-----------------------------------------------------------------------------
(* An absent version and a version mismatch at the backend level *)

\* The config file is there and does not hold the component's key
VersionKeyAbsent(component_id) ==
    /\ component_id \in DOMAIN COMPONENT_INI_KEYS
    /\ ini_file.exists
    /\ COMPONENT_INI_KEYS[component_id] \notin DOMAIN ini_file.data

\* The config file holds a version of the component other than the expected
VersionDiffers(component_id, expected_version) ==
    /\ component_id \in DOMAIN COMPONENT_INI_KEYS
    /\ ini_file.exists
    /\ COMPONENT_INI_KEYS[component_id] \in DOMAIN ini_file.data
    /\ ini_file.data[COMPONENT_INI_KEYS[component_id]] # expected_version

C20_WitnessMismatch ==
    /\ pc = "done"
    /\ call.name = "verify_component_state"
    /\ call.component_id = "PTN"
    /\ call.expected_version = "1.2.3.4"
    /\ VersionDiffers("PTN", "1.2.3.4")
    /\ ret[1].backend_verification # << >>
    /\ ret[1].backend_verification[1].current_version = "1.0.0.0"
    /\ Len(ret[1].backend_verification[1].checks) = 2

\* verify_component_version returned a mismatch
C20_WitnessVersionCall ==
    /\ pc = "done"
    /\ call.name = "verify_component_version"
    /\ ret[1] = <<FALSE, "0.9.9.9">>

-----------------------------------------------------------------------------
(* Exceptions inside the levels of verify_component_state *)

\* The config read of the backend level raises: the session is down or the
\* file is missing (get_ini_file_content)
BackendReadRaises(component_id) ==
    /\ component_id \in DOMAIN COMPONENT_INI_KEYS
    /\ get_ini_file_content(FALSE).raised # NoExc

\* The log read of the log level raises
LogReadRaises == get_log_tail(LogLevelTailLines, FALSE).raised # NoExc

\* C21: verify_component_state never raises; every enabled level is run and
\* reported, and a level inside which a collaborator raised (page load,
\* config read, log read) reports passed = False together with the
\* exception's text in its 'error' entry.
C21_LevelExceptionsBecomeVerdicts ==
    (pc = "done" /\ call.name = "verify_component_state")
    => LET r == ret[1]
       IN  /\ raised = NoExc
           /\ (r.ui_verification # << >>) = call.check_ui
           /\ (r.backend_verification # << >>) = (call.check_backend /\ backend_verifier)
           /\ (r.log_verification # << >>) = (call.check_logs /\ log_verifier)
           /\ (call.check_ui /\ ~call.page_loaded)
              => /\ ~r.ui_verification[1].passed
                 /\ r.ui_verification[1].error # << >>
           /\ (call.check_logs /\ log_verifier /\ LogReadRaises)
              => /\ ~r.log_verification[1].passed
                 /\ r.log_verification[1].error # << >>
           /\ (call.check_backend /\ backend_verifier
                 /\ BackendReadRaises(call.component_id))
              => /\ ~r.backend_verification[1].passed
                 /\ r.backend_verification[1].error # << >>

-----------------------------------------------------------------------------
(* Finalisation of the result records *)

\* C22: every result returned by execute_normal_update or execute_rollback,
\* on every exit path (success, exception, timeout, not supported), carries
\* its end time and the duration measured from the operation's start.
C22_ReturnedResultIsFinalised ==
    (pc = "done" /\ op.kind \in {"update", "rollback"})
    => /\ result.end_time = <<now>>
       /\ result.duration = now - op.start_time

\* The success path alone finalises the record
C22_SuccessPathIsFinalised ==
    (pc = "done" /\ op.kind \in {"update", "rollback"} /\ result.success)
    => /\ result.end_time = <<now>>
       /\ result.duration = now - op.start_time

-----------------------------------------------------------------------------
(* SetupWorkflow.compare_snapshots *)

\* Components of the snapshots in the model
SnapshotIds == {"PTN", "ENG"}

\* Times at which snapshots are taken ('timestamp')
SnapshotTimes == {0, 1}

\* Snapshots as create_version_snapshot builds them: a version or None for
\* each component asked for ('system_info' is not read by the comparison)
Snapshots ==
    UNION {[timestamp : SnapshotTimes, versions : [ids -> Versions \cup {None}]] :
              ids \in SUBSET SnapshotIds}

\* The lists a loop over the set S can build: every order without repetition
ListsOf(S) ==
    {q \in [1..Cardinality(S) -> S] : \A i, j \in 1..Cardinality(S) : q[i] = q[j] => i = j}

\* A comparison that also reports a component without version as changed
VersionsDifferOrAbsent(v1, v2) == v1 # v2 \/ v1 = None

\* Line 275:  if v1 != v2
VersionsDiffer(v1, v2) == v1 # v2

\* compare_snapshots with its loop running over all_components in the
\* order given (the iteration order of a Python set)
compare_snapshots(snapshot1, snapshot2, order) ==
    LET versions1 == snapshot1.versions
        versions2 == snapshot2.versions
        changed(c) == VersionsDiffer(DictGet(versions1, c, None), DictGet(versions2, c, None))
        changed_components == SelectSeq(order, changed)
        unchanged(c) == ~changed(c)
    IN  [snapshot1_time |-> snapshot1.timestamp,
         snapshot2_time |-> snapshot2.timestamp,
         changed_components |-> changed_components,
         unchanged_components |-> SelectSeq(order, unchanged),
         version_changes |->
             [c \in {changed_components[k] : k \in 1..Len(changed_components)} |->
                 [before |-> DictGet(versions1, c, None),
                  after |-> DictGet(versions2, c, None)]]]

CallCompareSnapshots ==
    /\ pc = "idle"
    /\ pc' = "done"
    /\ \E snapshot1, snapshot2 \in Snapshots :
        \E order \in ListsOf(DOMAIN snapshot1.versions \cup DOMAIN snapshot2.versions) :
            /\ call' = [name |-> "compare_snapshots",
                        snapshot1 |-> snapshot1, snapshot2 |-> snapshot2]
            /\ ret' = <<compare_snapshots(snapshot1, snapshot2, order)>>
    /\ raised' = NoExc
    /\ UNCHANGED <<backend_verifier, log_verifier, op, result, wait, batch, calls,
                   lock_files, now, ssh_connected, ini_file, log_file>>

InitSnapshot ==
    /\ InitCommon
    /\ backend_verifier = TRUE
    /\ log_verifier = FALSE
    /\ ini_file = GoodIni
    /\ log_file = GoodLog

NextSnapshot ==
    \/ CallCompareSnapshots
    \/ Discard

SpecSnapshot == InitSnapshot /\ [][NextSnapshot]_vars

\* C23: compare_snapshots(s, s) reports no changed component for every
\* snapshot s: changed_components and version_changes are empty and
\* unchanged_components lists every component of s exactly once.
C23_SnapshotEqualsItself ==
    (pc = "done" /\ call.name = "compare_snapshots" /\ call.snapshot1 = call.snapshot2)
    => LET r == ret[1]
           ids == DOMAIN call.snapshot1.versions
       IN  /\ r.changed_components = << >>
           /\ DOMAIN r.version_changes = {}
           /\ {r.unchanged_components[k] : k \in 1..Len(r.unchanged_components)} = ids
           /\ Len(r.unchanged_components) = Cardinality(ids)

\* A snapshot of two components, one without version, compared with itself
C23_Witness ==
    /\ pc = "done"
    /\ call.name = "compare_snapshots"
    /\ call.snapshot1 = call.snapshot2
    /\ call.snapshot1.versions = [c \in SnapshotIds |-> IF c = "PTN" THEN "1.2.3.4" ELSE None]
    /\ Len(ret[1].unchanged_components) = 2

-----------------------------------------------------------------------------
(* UIVerification: the verify_* methods *)

MaxElements == 2        \* most elements a locator matches, most expected

\* Methods that only wait for a condition of the page
WaitOnlyMethods ==
    {"verify_element_visible", "verify_element_not_visible", "verify_element_present",
     "verify_page_title", "verify_url_contains"}

\* Methods that wait for the element and then compare a value of it
WaitAndCompareMethods ==
    {"verify_text_equals", "verify_text_contains", "verify_attribute_value",
     "verify_element_enabled"}

UiMethods ==
    WaitOnlyMethods \cup WaitAndCompareMethods
        \cup {"verify_text_present", "verify_elements_count"}

\* return True
Pass == [raised |-> NoExc, value |-> <<TRUE>>]

\* A failure reported by returning False
FailSilently(expected, actual) == [raised |-> NoExc, value |-> <<FALSE>>]

\* raise AssertionError(f"... expected ..., got ..."): the message names the
\* condition that was expected and what the page showed instead
Fail(expected, actual) ==
    [raised |-> Exc("AssertionError", <<expected, actual>>), value |-> << >>]

\* An exception of the driver other than TimeoutException is not caught
DriverError == Exc("WebDriverException", <<"invalid session id">>)

\* The verify_* method over the page's behaviour: 'waited' says that the
\* WebDriverWait condition came true within the timeout, 'matches' that the
\* value compared afterwards (text, attribute, enabled, page source) is the
\* expected one, 'actual_count' is len(find_elements(...)).
ui_verify(method, has_locator, waited, matches, expected_count, actual_count) ==
    IF method \in WaitOnlyMethods
    THEN IF waited THEN Pass ELSE Fail(method, "timeout")
    ELSE IF method \in WaitAndCompareMethods
    THEN IF ~waited THEN Fail(method, "Element not found")
         ELSE IF matches THEN Pass ELSE Fail(method, "mismatch")
    ELSE IF method = "verify_text_present"
    THEN IF has_locator
         THEN IF waited THEN Pass ELSE Fail(method, "timeout")
         ELSE IF matches THEN Pass ELSE Fail(method, "not found on page")
    ELSE \* verify_elements_count
         IF waited
         THEN IF actual_count = expected_count THEN Pass
              ELSE Fail(ToString(expected_count), ToString(actual_count))
         ELSE IF expected_count = 0 THEN Pass
              ELSE Fail(ToString(expected_count), "No elements found")

\* A call of one verify_* method.  The browser session may be lost, and then
\* the driver's exception escapes the method.
CallUiVerify ==
    /\ pc = "idle"
    /\ pc' = "done"
    /\ \E method \in UiMethods, has_locator, waited, matches, lost \in BOOLEAN,
          expected_count \in 0..MaxElements, actual_count \in 1..MaxElements :
        LET out == ui_verify(method, has_locator, waited, matches, expected_count,
                             actual_count)
        IN  /\ call' = [name |-> method, has_locator |-> has_locator,
                        waited |-> waited, matches |-> matches, lost |-> lost,
                        expected_count |-> expected_count,
                        actual_count |-> actual_count]
            /\ raised' = IF lost THEN DriverError ELSE out.raised
            /\ ret' = IF lost THEN << >> ELSE out.value
    /\ UNCHANGED <<backend_verifier, log_verifier, op, result, wait, batch, calls,
                   lock_files, now, ssh_connected, ini_file, log_file>>

InitUi ==
    /\ InitCommon
    /\ backend_verifier = FALSE
    /\ log_verifier = FALSE
    /\ ini_file = GoodIni
    /\ log_file = GoodLog

NextUi ==
    \/ CallUiVerify
    \/ Discard

SpecUi == InitUi /\ [][NextUi]_vars

-----------------------------------------------------------------------------
(* BasePage, SystemUpdatePage, LoginPage: operations inside a frame *)

MaxFramePolls == 2      \* most iterations of wait_for_frame_content's loop

\* The document the driver's commands address: the default document or a frame
Frames == {"tophead", "left", "right"}
Contexts == {"default"} \cup Frames

\* Exceptions of the driver while the session is alive
WaitTimeout == Exc("TimeoutException", <<"timeout">>)
ElementError == Exc("WebDriverException", <<"stale element reference">>)

\* What a step of the driver can do: succeed, find nothing or time out, or
\* raise another exception
StepOutcomes == {"ok", "none", "error"}

\* An exit of a page operation: the value returned or the exception raised,
\* and the document the driver is left on
Exit(value, exc, context) == [value |-> value, raised |-> exc, context |-> context]

\* BasePage.switch_to_frame: default_content() first, then the wait for the
\* frame; a timeout returns False, any other exception escapes
switch_to_frame(frame_name, sw) ==
    IF sw = "ok" THEN Exit(<<TRUE>>, NoExc, frame_name)
    ELSE IF sw = "none" THEN Exit(<<FALSE>>, NoExc, "default")
    ELSE Exit(<< >>, ElementError, "default")

\* BasePage.switch_to_default_content
switch_to_default_content(context) == "default"

\* A finally clause that does not switch back
FinallyNothing(e) == e

\* finally: self.switch_to_default_content()
Finally(e) == [e EXCEPT !.context = switch_to_default_content(@)]

\* body.text of the document the driver is on
BodyTextOf(context) == <<"body text of", context>>

\* BasePage.get_frame_content: the switch is outside the try, and its False
\* is not looked at
get_frame_content(frame_name, sw, body) ==
    LET s == switch_to_frame(frame_name, sw)
    IN  IF s.raised # NoExc THEN s
        ELSE Finally(IF body = "ok" THEN Exit(<<BodyTextOf(s.context)>>, NoExc, s.context)
                     ELSE IF body = "none" THEN Exit(<< >>, WaitTimeout, s.context)
                     ELSE Exit(<< >>, ElementError, s.context))

\* One pass of the loop body of wait_for_frame_content: "found" when the
\* text is there, otherwise the context the pass leaves
FramePoll(frame_name, sw, body) ==
    LET s == switch_to_frame(frame_name, sw)
    IN  IF s.raised # NoExc THEN [found |-> FALSE, context |-> s.context]
        ELSE IF s.value = <<FALSE>> THEN [found |-> FALSE, context |-> s.context]
        ELSE IF body = "ok"
        THEN [found |-> TRUE, context |-> switch_to_default_content(s.context)]
        ELSE IF body = "none"
        THEN [found |-> FALSE, context |-> switch_to_default_content(s.context)]
        ELSE [found |-> FALSE, context |-> s.context]     \* except Exception: only logged

\* BasePage.wait_for_frame_content: 'polls' are the passes made before the
\* timeout, each a pair <<sw, body>>
RECURSIVE wait_for_frame_content(_, _, _)
wait_for_frame_content(context, frame_name, polls) ==
    IF polls = << >>
    THEN Exit(<<FALSE>>, NoExc, switch_to_default_content(context))
    ELSE LET p == FramePoll(frame_name, Head(polls)[1], Head(polls)[2])
         IN  IF p.found THEN Exit(<<TRUE>>, NoExc, p.context)
             ELSE wait_for_frame_content(p.context, frame_name, Tail(polls))

\* BasePage.click_in_frame_by_text: 'click' is "ok" when a link holds the
\* text and the click worked, "none" when no link holds it, "error" when
\* find_elements or click raised
click_in_frame_by_text(frame_name, sw, click) ==
    LET s == switch_to_frame(frame_name, sw)
    IN  IF s.raised # NoExc
        THEN Exit(<<FALSE>>, NoExc, switch_to_default_content(s.context))
        ELSE IF s.value = <<FALSE>> THEN Exit(<<FALSE>>, NoExc, s.context)
        ELSE IF click = "ok"
        THEN Exit(<<TRUE>>, NoExc, switch_to_default_content(s.context))
        ELSE Exit(<<FALSE>>, NoExc, switch_to_default_content(s.context))

\* BasePage.click_link_in_frame: the partial-link-text lookup, then the
\* fallback over all links
click_link_in_frame(frame_name, sw, partial, click) ==
    LET s == switch_to_frame(frame_name, sw)
    IN  IF s.raised # NoExc
        THEN Exit(<<FALSE>>, NoExc, switch_to_default_content(s.context))
        ELSE IF s.value = <<FALSE>> THEN Exit(<<FALSE>>, NoExc, s.context)
        ELSE IF partial = "ok"
        THEN Exit(<<TRUE>>, NoExc, switch_to_default_content(s.context))
        ELSE IF click = "ok"
        THEN Exit(<<TRUE>>, NoExc, switch_to_default_content(s.context))
        ELSE Exit(<<FALSE>>, NoExc, switch_to_default_content(s.context))

\* SystemUpdatePage.get_page_title: every return and the handler leave the
\* context to the finally clause
get_page_title(frame_name, sw, title, body) ==
    LET s == switch_to_frame(frame_name, sw)
    IN  Finally(IF s.raised # NoExc THEN Exit(<<None>>, NoExc, s.context)
                ELSE IF s.value = <<FALSE>> THEN Exit(<<None>>, NoExc, s.context)
                ELSE IF title = "ok" THEN Exit(<<"System Updates">>, NoExc, s.context)
                ELSE IF title = "error" THEN Exit(<<None>>, NoExc, s.context)
                ELSE IF body = "ok" THEN Exit(<<"System Update">>, NoExc, s.context)
                ELSE Exit(<<None>>, NoExc, s.context))

\* SystemUpdatePage.is_frame_accessible
is_frame_accessible(frame_name, sw, body) ==
    LET s == switch_to_frame(frame_name, sw)
    IN  Finally(IF s.raised # NoExc THEN Exit(<<FALSE>>, NoExc, s.context)
                ELSE IF s.value = <<FALSE>> THEN Exit(<<FALSE>>, NoExc, s.context)
                ELSE Exit(<<body = "ok">>, NoExc, s.context))

\* LoginPage.logout: the False returns leave the context to the finally clause
logout(frame_name, sw, click) ==
    LET s == switch_to_frame(frame_name, sw)
    IN  Finally(IF s.raised # NoExc THEN Exit(<<FALSE>>, NoExc, s.context)
                ELSE IF s.value = <<TRUE>> /\ click = "ok"
                THEN Exit(<<TRUE>>, NoExc, switch_to_default_content(s.context))
                ELSE Exit(<<FALSE>>, NoExc, s.context))

FrameOperations ==
    {"get_frame_content", "wait_for_frame_content", "click_in_frame_by_text",
     "click_link_in_frame", "get_page_title", "is_frame_accessible", "logout"}

\* The frame an operation works in: its argument, or the page's own frame
FramesOf(operation) ==
    IF operation = "get_page_title" THEN {"right"}
    ELSE IF operation = "logout" THEN {"tophead"}
    ELSE Frames

\* The outcomes of the single steps, for the operations without a loop
StepsOf(operation) ==
    IF operation = "wait_for_frame_content" THEN {"ok"} ELSE StepOutcomes

\* The passes of the loop, for wait_for_frame_content
PollsOf(operation) ==
    IF operation = "wait_for_frame_content"
    THEN SeqsUpTo(StepOutcomes \X StepOutcomes, MaxFramePolls)
    ELSE {<< >>}

\* A call of a frame operation, made with the driver on any document.
\* 'entered' records that the operation did get into the frame.
CallFrameOperation ==
    /\ pc = "idle"
    /\ pc' = "done"
    /\ \E operation \in FrameOperations, entry \in Contexts :
        \E frame_name \in FramesOf(operation), sw, a, b \in StepsOf(operation),
           polls \in PollsOf(operation) :
            LET e == CASE operation = "get_frame_content" ->
                            get_frame_content(frame_name, sw, a)
                       [] operation = "wait_for_frame_content" ->
                            wait_for_frame_content(entry, frame_name, polls)
                       [] operation = "click_in_frame_by_text" ->
                            click_in_frame_by_text(frame_name, sw, a)
                       [] operation = "click_link_in_frame" ->
                            click_link_in_frame(frame_name, sw, a, b)
                       [] operation = "get_page_title" ->
                            get_page_title(frame_name, sw, a, b)
                       [] operation = "is_frame_accessible" ->
                            is_frame_accessible(frame_name, sw, a)
                       [] OTHER -> logout(frame_name, sw, a)
                entered == IF operation = "wait_for_frame_content"
                           THEN \E k \in 1..Len(polls) : polls[k][1] = "ok"
                           ELSE sw = "ok"
            IN  /\ call' = [name |-> operation, frame_name |-> frame_name,
                            entry |-> entry, entered |-> entered,
                            context |-> e.context]
                /\ ret' = e.value
                /\ raised' = e.raised
    /\ UNCHANGED <<backend_verifier, log_verifier, op, result, wait, batch, calls,
                   lock_files, now, ssh_connected, ini_file, log_file>>

InitFrames ==
    /\ InitCommon
    /\ backend_verifier = FALSE
    /\ log_verifier = FALSE
    /\ ini_file = GoodIni
    /\ log_file = GoodLog

NextFrames ==
    \/ CallFrameOperation
    \/ Discard

SpecFrames == InitFrames /\ [][NextFrames]_vars

\* C25: every frame-scoped page operation (get_frame_content,
\* wait_for_frame_content, click_in_frame_by_text, click_link_in_frame,
\* get_page_title, is_frame_accessible, logout) leaves the driver on the
\* default document when it exits, whether it returned its result, returned
\* a failure value or raised, and whatever document it was called on.
C25_FrameOperationsRestoreDefaultContent ==
    (pc = "done" /\ call.name \in FrameOperations) => call.context = "default"

\* get_frame_content raised inside the frame it had entered from another frame
C25_Witness ==
    /\ pc = "done"
    /\ call.name = "get_frame_content"
    /\ call.entry = "left"
    /\ call.frame_name = "right"
    /\ call.entered
    /\ raised = WaitTimeout
    /\ call.context = "default"

-----------------------------------------------------------------------------
(* The component registry *)

\* The groups the self test checks the registry for
PatternTypeIds == {"PTN", "SPYWARE", "BOT", "ITP", "ITE", "ICRCAGENT"}
EngineTypeIds == {"ENG", "ATSEENG", "TMUFEENG"}

\* The number of components the self test expects in each table
RegistrySize == 9

\* The five tables of the claim have the nine ids as their keys, and
\* TMUFEENG alone is without rollback support
RegistryTablesAgree ==
    /\ PatternTypeIds \cap EngineTypeIds = {}
    /\ Cardinality(PatternTypeIds \cup EngineTypeIds) = RegistrySize
    /\ DOMAIN COMPONENT_INI_KEYS = PatternTypeIds \cup EngineTypeIds
    /\ DOMAIN LOCK_FILE_PATHS = PatternTypeIds \cup EngineTypeIds
    /\ DOMAIN UPDATE_TIMEOUTS = PatternTypeIds \cup EngineTypeIds
    /\ DOMAIN ROLLBACK_SUPPORTED = PatternTypeIds \cup EngineTypeIds
    /\ DOMAIN ROLLBACK_TIMEOUTS = PatternTypeIds \cup EngineTypeIds
    /\ {c \in DOMAIN ROLLBACK_SUPPORTED : ~ROLLBACK_SUPPORTED[c]} = {"TMUFEENG"}
    /\ (pc = "done" /\ call.name = "can_rollback"
          /\ call.component_id \in PatternTypeIds \cup EngineTypeIds)
       => ret = <<call.component_id # "TMUFEENG">>

-----------------------------------------------------------------------------
(* The monitoring step of execute_rollback *)

\* C27: after the rollback trigger, execute_rollback with a backend
\* verifier waits through wait_for_lock_file_removal for the component's
\* lock with the rollback timeout (the override or the configured one): the
\* lock is polled at least once, and the rollback succeeds only if the wait
\* returned True, ending as a timeout otherwise.
C27_RollbackWaitsForTheLock ==
    (pc = "done" /\ op.kind = "rollback" /\ backend_verifier
        /\ calls.triggers = <<<<"rollback", op.component_id>>>>)
    => /\ wait.component_id = op.component_id
       /\ wait.timeout = op.update_timeout
       /\ wait.polls >= 1
       /\ result.success => wait.ret = <<TRUE>>

-----------------------------------------------------------------------------
(* execute_normal_update against the appliance as a process of its own:    *)
(* the trigger leaves the update pending, the appliance then takes the     *)
(* component's lock file, and removes it when the update has finished.     *)

\* Components the appliance updates in the model
ApplianceIds == {"PTN", "TMUFEENG"}

\* execute_normal_update; 'call' holds the appliance's side of the update
ExecuteUpdateOnAppliance ==
    /\ pc = "idle"
    /\ lock_files = {}
    /\ \E component_id \in ApplianceIds, timeout \in TimeoutArgs,
          verify_before, verify_after, verify_logs \in BOOLEAN,
          ui \in UiOutcomes, fault \in BOOLEAN :
        /\ BeginUpdate(FreshCalls, component_id, verify_before, verify_after,
                       verify_logs, timeout, ui[1], ui[2], fault)
        /\ call' = [name |-> "appliance", component_id |-> component_id,
                    phase |-> IF ui = <<NoExc, NoExc>> THEN "pending" ELSE "idle"]
    /\ UNCHANGED <<backend_verifier, log_verifier, batch,
                   lock_files, ssh_connected, ini_file, log_file, ret>>

\* The appliance starts the triggered update: it creates the lock file
ApplianceTakesLock ==
    /\ call.name = "appliance"
    /\ call.phase = "pending"
    /\ lock_files' = lock_files \cup {LOCK_FILE_PATHS[call.component_id]}
    /\ call' = [call EXCEPT !.phase = "running"]
    /\ UNCHANGED <<pc, backend_verifier, log_verifier, op, result, wait, batch, calls,
                   raised, now, ssh_connected, ini_file, log_file, ret>>

\* The appliance finishes the update: it removes the lock file
ApplianceFinishes ==
    /\ call.name = "appliance"
    /\ call.phase = "running"
    /\ lock_files' = lock_files \ {LOCK_FILE_PATHS[call.component_id]}
    /\ call' = [call EXCEPT !.phase = "finished"]
    /\ wait' = NoteAbsent(wait, lock_files')
    /\ UNCHANGED <<pc, backend_verifier, log_verifier, op, result, batch, calls,
                   raised, now, ssh_connected, ini_file, log_file, ret>>

\* The caller drops the result once the appliance is at rest
DiscardFinished ==
    /\ call.name = "appliance" => call.phase \in {"idle", "finished"}
    /\ Discard

\* The lock files are as the appliance leaves them: none while no update runs
InitAppliance ==
    /\ InitCommon
    /\ backend_verifier \in BOOLEAN
    /\ log_verifier \in BOOLEAN
    /\ ini_file = GoodIni
    /\ log_file \in LogFiles

NextAppliance ==
    \/ ExecuteUpdateOnAppliance
    \/ ApplianceTakesLock
    \/ ApplianceFinishes
    \/ WaitLoop
    \/ WaitSleep
    \/ UiWake
    \/ Connect
    \/ DiscardFinished

SpecAppliance == InitAppliance /\ [][NextAppliance]_vars

\* C28: with the appliance creating the lock file some time after the
\* trigger and removing it when the update finishes, a result with
\* success = True is returned by execute_normal_update only after the
\* appliance's update has finished (lock created and then removed), never
\* while the triggered update has not yet taken its lock or is in flight.
C28_SuccessOnlyAfterApplianceFinished ==
    (pc = "done" /\ op.kind = "update" /\ result.success) => call.phase = "finished"

-----------------------------------------------------------------------------
(* Lock polls whose remote stat failed *)

\* A lock poll of the current operation had its remote stat fail (the
\* failure SSHHelper.file_exists catches)
StatFailed == \E x \in calls.exceptions : x.where = "remote_stat"

\* C29: the wait of an update on a registered component returns True only
\* if a poll found the lock file absent; a poll whose remote stat failed is
\* not taken for clearance, so no update succeeds on a failed poll.
C29_FailedPollIsNotClearance ==
    (pc = "done" /\ op.kind = "update" /\ wait.caller = "update"
        /\ op.component_id \in ComponentIds)
    => /\ wait.ret = <<TRUE>> => (wait.seen_absent /\ ~StatFailed)
       /\ result.success => ~StatFailed

-----------------------------------------------------------------------------
(* Timeout overrides *)

\* The timeout the operation waits with: the wait's timeout for an update
\* monitored through the lock file, the value computed at update_workflow.py:167 and rollback_workflow.py:184
\* otherwise
EffectiveTimeout ==
    IF op.kind = "update" /\ wait.caller = "update" THEN wait.timeout
    ELSE op.update_timeout

\* The operation got as far as its monitoring step
Monitored ==
    /\ op.kind \in {"update", "rollback"}
    /\ calls.triggers = <<<<op.kind, op.component_id>>>>
    /\ op.component_id \in ComponentIds

\* C30: a timeout supplied to execute_normal_update or execute_rollback,
\* whatever non-negative integer it is, is the timeout of the operation's
\* wait; the component's configured timeout is used only when none is
\* supplied.
C30_SuppliedTimeoutReplacesConfigured ==
    Monitored
    => IF op.timeout # << >>
       THEN EffectiveTimeout = op.timeout[1]
       ELSE EffectiveTimeout = IF op.kind = "update"
                               THEN UPDATE_TIMEOUTS[op.component_id]
                               ELSE ROLLBACK_TIMEOUTS[op.component_id]

\* Every supplied timeout other than 0 does replace the configured one
C30_PositiveTimeoutReplacesConfigured ==
    (Monitored /\ op.timeout # <<0>>)
    => IF op.timeout # << >>
       THEN EffectiveTimeout = op.timeout[1]
       ELSE EffectiveTimeout = IF op.kind = "update"
                               THEN UPDATE_TIMEOUTS[op.component_id]
                               ELSE ROLLBACK_TIMEOUTS[op.component_id]

-----------------------------------------------------------------------------
(* The pre-operation version read *)

\* The operation read the component's version before it navigated
PreReadHappened == op.pre_version # << >>

\* The read was asked for and a backend verifier is there to make it
PreReadDue == op.verify_before /\ backend_verifier

\* C31 (as stated): in every update and rollback, the pre-operation version
\* read happens iff pre-verification is requested and a backend verifier is
\* configured, and it has happened wherever the trigger has; otherwise
\* pre_verification stays empty.
C31_PreReadIffRequestedAndConfigured ==
    (op.kind \in {"update", "rollback"} /\ ~batch.active)
    => /\ PreReadHappened <=> PreReadDue
       /\ (result.pre_verification # << >>) <=> PreReadDue
       /\ (calls.triggers # << >> /\ PreReadDue) => result.pre_verification # << >>

\* C31 (amended): the same for every update and for every rollback of a
\* component that supports rollback; a rollback of a component that does not
\* is rejected before the read, so that it neither reads the version nor
\* navigates nor triggers, whatever was requested.
C31_PreReadIffRequestedConfiguredAndSupported ==
    (op.kind \in {"update", "rollback"} /\ ~batch.active)
    => IF op.kind = "rollback" /\ ~can_rollback(op.component_id)
       THEN /\ ~PreReadHappened
            /\ result.pre_verification = << >>
            /\ calls.navigate = 0
            /\ calls.triggers = << >>
       ELSE /\ PreReadHappened <=> PreReadDue
            /\ (result.pre_verification # << >>) <=> PreReadDue
            /\ (calls.triggers # << >> /\ PreReadDue)
                   => result.pre_verification # << >>

\* A rollback that read the version and then failed to navigate: the read
\* was made although the trigger never was
C31_Witness ==
    /\ pc = "done"
    /\ op.kind = "rollback"
    /\ PreReadHappened
    /\ result.pre_verification # << >>
    /\ calls.triggers = << >>
    /\ calls.navigate = 1

\* An update that went directly to its trigger, without a read
C31_WitnessSkipped ==
    /\ pc = "done"
    /\ op.kind = "update"
    /\ op.verify_before
    /\ ~backend_verifier
    /\ result.pre_verification = << >>
    /\ calls.triggers # << >>

-----------------------------------------------------------------------------
(* Updates without a log verifier *)

\* The monitoring of the returned update saw the lock clear: the wait
\* returned True, or, without a backend verifier, the fixed sleep ended
MonitoringCleared ==
    /\ calls.triggers = <<<<"update", op.component_id>>>>
    /\ IF backend_verifier THEN wait.ret = <<TRUE>> ELSE wait.caller = "none"

\* C32: an update that asks for log verification while no log verifier is
\* configured never fails for that: it succeeds whenever it was triggered and
\* its monitoring saw the lock clear, and log_verification stays empty.
C32_MissingLogVerifierNeverFails ==
    (pc = "done" /\ op.kind = "update" /\ op.verify_logs /\ ~log_verifier)
    => /\ result.log_verification = << >>
       /\ MonitoringCleared => (result.success /\ result.error = << >>)
       /\ \A x \in calls.exceptions : x.where # "log_verification"

C32_Witness ==
    /\ pc = "done"
    /\ op.kind = "update"
    /\ op.verify_logs
    /\ ~log_verifier
    /\ backend_verifier
    /\ wait.ret = <<TRUE>>
    /\ wait.polls > 1
    /\ result.success
    /\ result.log_verification = << >>

-----------------------------------------------------------------------------
(* What the success flag of an update depends on *)

\* The log verification of the update raised (its log read failed)
LogVerificationRaised == \E x \in calls.exceptions : x.where = "log_verification"

\* C33: the success flag of a returned update depends only on the lock
\* clearing without an exception: it is True exactly when the update was
\* triggered, its monitoring saw the lock clear and no later step raised,
\* whatever the post-update version and the verdict of the log cycle
\* verification are; these are attached to the result.
C33_SuccessDependsOnlyOnTheLockClearing ==
    (pc = "done" /\ op.kind = "update")
    => /\ result.success <=> (MonitoringCleared /\ ~LogVerificationRaised)
       /\ (result.success /\ op.verify_after /\ backend_verifier)
              => result.post_verification # << >>
       /\ (result.success /\ op.verify_logs /\ log_verifier)
              => result.log_verification # << >>

\* A successful update whose version did not change and whose log cycle
\* verification failed
C33_Witness ==
    /\ pc = "done"
    /\ op.kind = "update"
    /\ result.success
    /\ result.pre_verification # << >>
    /\ result.pre_verification[1] # None
    /\ result.post_verification = result.pre_verification
    /\ result.log_verification # << >>
    /\ ~result.log_verification[1].success

-----------------------------------------------------------------------------
(* Counts of a batch result (SpecBatch) *)

\* The batch has returned its result
BatchReturned == pc = "done" /\ batch.operation \in {"update", "rollback"}

\* The input list names no component twice
NoRepeatedId ==
    \A i, j \in DOMAIN batch.component_ids :
        batch.component_ids[i] = batch.component_ids[j] => i = j

\* C34: after execute_update_all or execute_batch_rollback returns, for
\* every input list, lists that repeat an id included, success_count +
\* failure_count + skipped_count equals the number of entries of
\* component_results and does not exceed total_count.
C34_CountsMatchComponentResults ==
    BatchReturned
    => /\ batch.success_count + batch.failure_count + batch.skipped_count
              = Cardinality(DOMAIN batch.component_results)
       /\ batch.success_count + batch.failure_count + batch.skipped_count
              <= batch.total_count

\* For lists without a repeated id the counts do match the entries
C34_CountsMatchWithoutRepeats ==
    (BatchReturned /\ NoRepeatedId) => C34_CountsMatchComponentResults

-----------------------------------------------------------------------------
(* Success flag of a batch result (SpecBatch) *)

\* C35: the success flag of a returned batch is True iff failure_count is 0;
\* skipped components never make it False, so that a rollback batch all of
\* whose components were skipped, and a batch over the empty list, report
\* success = True.
C35_BatchSuccessIffNoFailure ==
    BatchReturned
    => /\ batch.success = <<batch.failure_count = 0>>
       /\ (batch.skipped_count = batch.total_count) => batch.success = <<TRUE>>
       /\ batch.component_ids = << >> => batch.success = <<TRUE>>

\* A rollback batch of two components, both skipped as not supported
C35_Witness ==
    /\ BatchReturned
    /\ batch.operation = "rollback"
    /\ batch.total_count = 2
    /\ batch.skipped_count = 2
    /\ batch.success = <<TRUE>>

\* A batch over the empty list
C35_WitnessEmpty ==
    /\ BatchReturned
    /\ batch.component_ids = << >>
    /\ batch.success = <<TRUE>>

\* A batch that failed
C35_WitnessFailed ==
    /\ BatchReturned
    /\ batch.failure_count > 0
    /\ batch.success = <<FALSE>>

-----------------------------------------------------------------------------
(* Errors of one component (SpecLog) *)

\* The log line names the component
RelatesTo(line, component_id) ==
    \E i \in DOMAIN line : Lower(component_id) \in LiteralsIn(line[i])

\* The log line carries one of the error markers of PATTERNS['error']
HasErrorMarker(line) ==
    \E i \in DOMAIN line, k \in DOMAIN PATTERNS_error :
        PATTERNS_error[k] \in LiteralsIn(line[i])

\* C36: verify_no_errors_for_component(component_id) returns no_errors =
\* False iff some line of the log relates to the component and carries an
\* error marker, and returns only such lines; error lines that name only
\* other components, or none, are not returned and do not make it False.
C36_OnlyTheComponentsErrorsCount ==
    (pc = "done" /\ call.name = "verify_no_errors_for_component" /\ ret # << >>)
    => /\ ~ret[1].ok <=> \E k \in DOMAIN log_file :
                             /\ RelatesTo(log_file[k], call.component_id)
                             /\ HasErrorMarker(log_file[k])
       /\ \A k \in DOMAIN ret[1].lines :
              /\ RelatesTo(ret[1].lines[k], call.component_id)
              /\ HasErrorMarker(ret[1].lines[k])

\* What the code does return: every line with an error marker, whatever
\* component it names
C36_EveryErrorLineCounts ==
    (pc = "done" /\ call.name = "verify_no_errors_for_component" /\ ret # << >>)
    => /\ ret[1].lines = SelectSeq(log_file, HasErrorMarker)
       /\ ret[1].ok <=> ret[1].lines = << >>

-----------------------------------------------------------------------------
(* helpers/logger.py: TestLogger's test context and step counter.  call    *)
(* holds the class attribute _current_test_context, ret the threads: the   *)
(* position of each in log_step, the value it has loaded and the step      *)
(* numbers it has received since the context was set.                      *)

Threads == {1, 2}

TestNames == {"test_a", "test_b"}

\* _current_test_context as the class body and reset_context build it
FreshContext == [name |-> "TestLogger", test_name |-> None, step_number |-> 0]

IdleThread == [pc |-> "idle", loaded |-> 0, steps |-> << >>]

AllThreadsIdle == \A t \in Threads : ret[t].pc = "idle"

\* TestLogger.set_test_context, called by the test before its threads log
set_test_context ==
    /\ call.name = "TestLogger"
    /\ AllThreadsIdle
    /\ \E test_name \in TestNames :
        call' = [call EXCEPT !.test_name = test_name, !.step_number = 0]
    /\ ret' = [t \in Threads |-> IdleThread]
    /\ UNCHANGED <<pc, backend_verifier, log_verifier, op, result, wait, batch, calls,
                   raised, lock_files, now, ssh_connected, ini_file, log_file>>

\* TestLogger.reset_context
reset_context ==
    /\ call.name = "TestLogger"
    /\ AllThreadsIdle
    /\ call' = FreshContext
    /\ ret' = [t \in Threads |-> IdleThread]
    /\ UNCHANGED <<pc, backend_verifier, log_verifier, op, result, wait, batch, calls,
                   raised, lock_files, now, ssh_connected, ini_file, log_file>>

\* increment_step, line 154, first half: the thread reads step_number
IncrementStepLoad(t) ==
    /\ call.name = "TestLogger"
    /\ ret[t].pc = "idle"
    /\ Len(ret[t].steps) < MaxSteps
    /\ ret' = [ret EXCEPT ![t].pc = "loaded", ![t].loaded = call.step_number]
    /\ UNCHANGED <<pc, backend_verifier, log_verifier, op, result, wait, batch, calls,
                   raised, lock_files, now, ssh_connected, ini_file, log_file, call>>

\* increment_step, line 154, second half: the thread stores what it read + 1
IncrementStepStore(t) ==
    /\ call.name = "TestLogger"
    /\ ret[t].pc = "loaded"
    /\ call' = [call EXCEPT !.step_number = ret[t].loaded + 1]
    /\ ret' = [ret EXCEPT ![t].pc = "stored"]
    /\ UNCHANGED <<pc, backend_verifier, log_verifier, op, result, wait, batch, calls,
                   raised, lock_files, now, ssh_connected, ini_file, log_file>>

\* increment_step, line 155, and log_step: the thread reads step_number
\* again, returns it and logs the step under that number
IncrementStepReturn(t) ==
    /\ call.name = "TestLogger"
    /\ ret[t].pc = "stored"
    /\ ret' = [ret EXCEPT ![t].pc = "idle",
                          ![t].steps = Append(@, call.step_number)]
    /\ UNCHANGED <<pc, backend_verifier, log_verifier, op, result, wait, batch, calls,
                   raised, lock_files, now, ssh_connected, ini_file, log_file, call>>

log_step == \E t \in Threads :
    \/ IncrementStepLoad(t)
    \/ IncrementStepStore(t)
    \/ IncrementStepReturn(t)

InitLogger ==
    /\ pc = "idle"
    /\ op = IdleOp
    /\ result = InitResult("none", None)
    /\ wait = IdleWait
    /\ batch = IdleBatch
    /\ calls = FreshCalls
    /\ raised = NoExc
    /\ lock_files = {}
    /\ now = 0
    /\ ssh_connected = FALSE
    /\ backend_verifier = FALSE
    /\ log_verifier = FALSE
    /\ ini_file = GoodIni
    /\ log_file = GoodLog
    /\ call = FreshContext
    /\ ret = [t \in Threads |-> IdleThread]

NextLogger ==
    \/ set_test_context
    \/ reset_context
    \/ log_step

SpecLogger == InitLogger /\ [][NextLogger]_vars

\* log_step calls completed since the context was set
StepsLogged == Len(ret[1].steps) + Len(ret[2].steps)

\* C37: when two threads call log_step concurrently after one
\* set_test_context, every call receives a step number of its own and, once
\* the calls are over, the counter is the number of calls made; the counter
\* is 0 when the context has just been set or reset.
C37_StepCounterIsThreadSafe ==
    call.name = "TestLogger"
    => /\ \A t, u \in Threads : \A i \in DOMAIN ret[t].steps, j \in DOMAIN ret[u].steps :
              ret[t].steps[i] = ret[u].steps[j] => (t = u /\ i = j)
       /\ AllThreadsIdle => call.step_number = StepsLogged

\* While only one thread logs, its steps are numbered 1, 2, ... and counted
C37_OneThreadCountsItsSteps ==
    (call.name = "TestLogger" /\ ret[2] = IdleThread /\ ret[1].pc = "idle")
    => /\ call.step_number = Len(ret[1].steps)
       /\ \A i \in DOMAIN ret[1].steps : ret[1].steps[i] = i

-----------------------------------------------------------------------------
(* BackendVerification.connect / disconnect over SSHHelper.  ssh_connected *)
(* is SSHHelper.connected; call holds BackendVerification.connected,       *)
(* whether SSHHelper.client is set, and the calls made so far; ret the     *)
(* outcome of the last remote command.                                     *)

\* client.connect(...) succeeds or raises one of the exceptions that
\* SSHHelper.connect handles
ConnectOutcomes == {"ok", "AuthenticationException", "SSHException", "Exception"}

\* BackendVerification.__init__ over a fresh SSHHelper
FreshVerifier ==
    [name |-> "BackendVerification", connected |-> FALSE, client |-> FALSE,
     history |-> << >>]

\* BackendVerification.connect: self.connected = self.ssh.connect(), the
\* exception of a failed connection re-raised before the assignment
BackendConnect ==
    /\ call.name = "BackendVerification"
    /\ Len(call.history) < MaxCalls
    /\ \E outcome \in ConnectOutcomes :
        /\ ssh_connected' = (outcome = "ok")
        /\ call' = [call EXCEPT
                       !.client = TRUE,
                       !.connected = IF outcome = "ok" THEN TRUE ELSE @,
                       !.history = Append(@, <<"connect", outcome>>)]
        /\ raised' = IF outcome = "ok" THEN NoExc
                     ELSE Exc(outcome, <<"connection failed">>)
    /\ ret' = << >>
    /\ UNCHANGED <<pc, backend_verifier, log_verifier, op, result, wait, batch, calls,
                   lock_files, now, ini_file, log_file>>

\* BackendVerification.disconnect over SSHHelper.disconnect
BackendDisconnect ==
    /\ call.name = "BackendVerification"
    /\ Len(call.history) < MaxCalls
    /\ ssh_connected' = IF call.client THEN FALSE ELSE ssh_connected
    /\ call' = [call EXCEPT !.connected = FALSE,
                            !.history = Append(@, <<"disconnect">>)]
    /\ raised' = NoExc
    /\ ret' = << >>
    /\ UNCHANGED <<pc, backend_verifier, log_verifier, op, result, wait, batch, calls,
                   lock_files, now, ini_file, log_file>>

\* The guard of SSHHelper.execute_command, lines 152-153
CommandAccepted == ssh_connected /\ call.client

\* A remote command of the verifier: accepted, or RuntimeError
RemoteCommand ==
    /\ call.name = "BackendVerification"
    /\ Len(call.history) < MaxCalls
    /\ call' = [call EXCEPT !.history = Append(@, <<"command">>)]
    /\ ret' = <<CommandAccepted>>
    /\ raised' = IF CommandAccepted THEN NoExc ELSE NotConnected
    /\ UNCHANGED <<pc, backend_verifier, log_verifier, op, result, wait, batch, calls,
                   lock_files, now, ssh_connected, ini_file, log_file>>

\* The test is over; the next one builds its own verifier
NewVerifier ==
    /\ call.name = "BackendVerification"
    /\ call.history # << >>
    /\ call' = FreshVerifier
    /\ ssh_connected' = FALSE
    /\ raised' = NoExc
    /\ ret' = << >>
    /\ UNCHANGED <<pc, backend_verifier, log_verifier, op, result, wait, batch, calls,
                   lock_files, now, ini_file, log_file>>

InitConnection ==
    /\ pc = "idle"
    /\ op = IdleOp
    /\ result = InitResult("none", None)
    /\ wait = IdleWait
    /\ batch = IdleBatch
    /\ calls = FreshCalls
    /\ raised = NoExc
    /\ lock_files = {}
    /\ now = 0
    /\ ssh_connected = FALSE
    /\ backend_verifier = TRUE
    /\ log_verifier = FALSE
    /\ ini_file = GoodIni
    /\ log_file = GoodLog
    /\ call = FreshVerifier
    /\ ret = << >>

NextConnection ==
    \/ BackendConnect
    \/ BackendDisconnect
    \/ RemoteCommand
    \/ NewVerifier

SpecConnection == InitConnection /\ [][NextConnection]_vars

\* C38: after any sequence of connect and disconnect calls on the backend
\* verifier, failed connect calls included, the verifier's connected flag
\* equals the helper's, and a remote command is accepted only while both are
\* True.
C38_ConnectedFlagsAgree ==
    call.name = "BackendVerification"
    => /\ call.connected = ssh_connected
       /\ ret = <<TRUE>> => (call.connected /\ ssh_connected)

\* What does hold: the helper is connected only while the verifier says so,
\* and a command is accepted only while both flags are True
C38_HelperConnectedImpliesVerifierConnected ==
    call.name = "BackendVerification"
    => /\ ssh_connected => call.connected
       /\ ret = <<TRUE>> => (call.connected /\ ssh_connected)

-----------------------------------------------------------------------------
(* Where get_frame_content reads its text (SpecFrames) *)

\* C39: get_frame_content(frame) returns text read from the requested frame
\* only: when the switch to the frame fails, it does not return the body
\* text of the default document, or of another frame, as the frame's.
C39_FrameContentIsTheFramesText ==
    (pc = "done" /\ call.name = "get_frame_content")
    => /\ ret # << >> => ret[1] = BodyTextOf(call.frame_name)
       /\ ~call.entered => ret = << >>

\* When the switch worked, the text returned is the frame's
C39_EnteredFrameContentIsTheFramesText ==
    (pc = "done" /\ call.name = "get_frame_content" /\ call.entered /\ ret # << >>)
    => ret[1] = BodyTextOf(call.frame_name)

====
